---- MODULE Spec2Model ----
(***************************************************************************)
(* chrome-jig: the session dispatcher (session/session.ts), its two        *)
(* protocol adapters (session/repl-protocol.ts, session/jsonrpc-protocol)  *)
(* and connection resilience (chrome/resilience.ts).                       *)
(*                                                                         *)
(* JavaScript strings that the code takes apart character by character     *)
(* (REPL input lines, error messages that are classified by substring,     *)
(* and method names looked up as property keys) are sequences of            *)
(* one-character strings.  TLA+ strings are tags and literal field names.  *)
(***************************************************************************)
EXTENDS Integers, Sequences, FiniteSets, TLC

(***************************************************************************)
(* Bounds of the model.                                                    *)
(***************************************************************************)
MaxLines == 2

MaxHosts == 2

MaxRetries == 2

MaxMessages == 2

MaxChunks == 3

MaxRegistrations == 2

\* startNreplServer calls
MaxServers == 2

\* writes of the clients of a server one of whose connections holds junk
MaxWrites == 3

\* launchChrome calls
MaxLaunches == 3

\* calls of injectRuntime and invalidateRuntime
MaxInjections == 4

(***************************************************************************)
(* State of a Session (session/session.ts) and of its protocol adapter.    *)
(***************************************************************************)
VARIABLES
  protocol,       \* options.protocol: "repl" (ReplProtocol) or "jsonrpc" (JsonRpcProtocol)
  localContext,   \* options.localContext is given
  lang,           \* ReplProtocol.lang
  lastInjectRef,  \* ReplProtocol.lastInjectRef
  methods,        \* Session.methods: own keys of the registry
  running,        \* Session.running
  rl,             \* Session.rl: "null", "open" or "closed"
  startPromise,   \* the promise start() returned: "none", "pending", "resolved"
  inflight,       \* handleLine invocations suspended at `await handler(...)`
  output,         \* what has been written to options.output, line by line
  lines,          \* history: the lines the readline interface has delivered
  settled,        \* history: the handler invocations that have settled
  escaped,        \* history: lines whose handleLine promise rejected
  alive,          \* the process has not been ended by an unhandled rejection
  stopCalled,     \* history: stop() has been called
  prompt,         \* options.prompt is given
  prompted,       \* readline has written the prompt to options.output at least once
  registered      \* history: for each name, the handlers passed to register, in call order

sessionVars ==
  <<protocol, localContext, lang, lastInjectRef, methods, running, rl,
    startPromise, inflight, output, lines, settled, escaped, alive, stopCalled,
    prompt, prompted, registered>>

(***************************************************************************)
(* State of one call of connectWithResilience (chrome/resilience.ts).      *)
(***************************************************************************)
VARIABLES
  options,    \* ResilienceOptions after defaults: host, port, retries, retryDelayMs, fallbackHosts
  hostIndex,  \* position of the outer loop in hosts (1-based)
  attempt,    \* the inner loop's attempt
  delay,      \* the inner loop's delay
  attempts,   \* the attempts array: one label per failed attempt
  pc,         \* "idle", "connect" (awaiting connect), "sleep" (awaiting sleep), "returned", "threw"
  outcome,    \* what connectWithResilience returned or threw
  events      \* history: connection attempts, their failures, and sleeps, in order

connVars == <<options, hostIndex, attempt, delay, attempts, pc, outcome, events>>

(***************************************************************************)
(* State of one nREPL server (nrepl/server.ts) and of its sockets.         *)
(***************************************************************************)
VARIABLES
  sessions,    \* the sessions Map of the server: the ids it holds
  uuids,       \* history: the ids crypto.randomUUID has returned
  buffer,      \* per socket: the bytes received and not yet consumed
  wire,        \* per socket: bytes the client has written that have not arrived yet
  written,     \* history, per socket: the messages the client has written
  chunks,      \* history, per socket: the number of data events so far
  requests,    \* history: the messages handleMessage was called with, in order
  evaluating,  \* requests whose evalOp is suspended at await evaluateCljs
  socketOut    \* what has been written to the sockets, in order

nreplVars == <<sessions, uuids, buffer, wire, written, chunks, requests, evaluating, socketOut>>

(***************************************************************************)
(* One JsonRpcProtocol (session/jsonrpc-protocol.ts) called on its own and  *)
(* the client that reads what it formats.                                   *)
(***************************************************************************)
VARIABLES
  rpcInput,   \* the line handed to parse, and how it was put together
  rpcParsed,  \* what parse returned
  rpcValue,   \* the result handed to formatResult
  rpcLine,    \* what formatResult returned
  rpcRead     \* what JSON.parse made of that line at the client

rpcVars == <<rpcInput, rpcParsed, rpcValue, rpcLine, rpcRead>>

(***************************************************************************)
(* One ReplProtocol (session/repl-protocol.ts) called on its own.  Its     *)
(* field lastInjectRef is the variable of that name above.                 *)
(***************************************************************************)
VARIABLES
  replLast,      \* the last call of parse or handleLocal: its input and what it returned
  replInjected   \* history: the argument of the last inject command that had one

replVars == <<replLast, replInjected>>

(***************************************************************************)
(* nREPL servers started by startNreplServer (nrepl/server.ts) and the     *)
(* directories their discovery files are written to.                       *)
(***************************************************************************)
VARIABLES
  servers,   \* per startNreplServer call: not started, listening or closed, its cwd and port
  files      \* per directory: the content of .nrepl-port, or that there is no such file

portVars == <<servers, files>>

(***************************************************************************)
(* One ChromeConnection (chrome/connection.ts) and the pages of the        *)
(* browser context it is connected to.                                     *)
(***************************************************************************)
VARIABLES
  browser,      \* this.browser is set: connect has resolved
  currentPage,  \* this.currentPage: 0 for null, or the position of the page in context.pages()
  cdpSession,   \* this.cdpSession: 0 for null, or the page the CDP session was created for
  globals,      \* per page: the scripts that have run in its main world
  replaced,     \* history: the pages a successful select has replaced as the current page
  lastRun       \* the last evaluate or injectScript: who called, and the page it ran in

pageVars == <<browser, currentPage, cdpSession, globals, replaced, lastRun>>

(***************************************************************************)
(* The eval op of the nREPL server as its clients observe it.              *)
(***************************************************************************)
VARIABLES
  observed   \* history: the last two eval requests, how their session ids stood, and their responses

evalVars == <<observed>>

(***************************************************************************)
(* classifyConnectError (chrome/resilience.ts) called on its own.          *)
(***************************************************************************)
VARIABLES
  thrown,         \* the value handed to classifyConnectError, and how its message was put together
  classification  \* what classifyConnectError returned

classifyVars == <<thrown, classification>>

(***************************************************************************)
(* One call of a built-in eval method (session/session.ts builtinMethods)  *)
(* and the evaluators it calls.                                            *)
(***************************************************************************)
VARIABLES
  invoked,         \* the method called and its params
  evaluatorCalls,  \* history: the calls of evaluate and evaluateCljs, each with its code and what it settled with
  returned         \* how the promise of the method stands: pending, resolved or rejected

methodVars == <<invoked, evaluatorCalls, returned>>

(***************************************************************************)
(* launchChrome (chrome/launcher.ts) and what it finds on the machine.     *)
(***************************************************************************)
VARIABLES
  chromeAt,      \* the Chrome executable: "none" found, a path that is "missing", or "found"
  listening,     \* a Chrome answers /json/version on the configured port
  profileLock,   \* the profile directory holds a lock file
  spawned,       \* the number of processes launchChrome has spawned
  sessionState,  \* the pid in the saved session state, 0 when there is no such file
  launches       \* history: per call, whether Chrome was listening, whether it spawned, its result

launchVars == <<chromeAt, listening, profileLock, spawned, sessionState, launches>>

(***************************************************************************)
(* The module state of cljs/runtime.ts.                                    *)
(***************************************************************************)
VARIABLES
  cachedScript,      \* the core script has been built
  lastInjectedPage,  \* 0 for null, or the page injectRuntime last injected into
  injections         \* history: the calls of injectRuntime and invalidateRuntime

runtimeVars == <<cachedScript, lastInjectedPage, injections>>

\* the components that are exercised on their own only
moreVars == <<classifyVars, methodVars, launchVars, runtimeVars>>

vars == <<sessionVars, connVars, nreplVars, rpcVars, replVars, portVars, pageVars, evalVars, moreVars>>

\* what the operations of one component leave alone: the other components
outsideSession == <<connVars, nreplVars, rpcVars, replVars, portVars, pageVars, evalVars, moreVars>>

outsideConn == <<sessionVars, nreplVars, rpcVars, replVars, portVars, pageVars, evalVars, moreVars>>

outsideNrepl == <<sessionVars, connVars, rpcVars, replVars, portVars, pageVars, evalVars, moreVars>>

outsideRpc == <<sessionVars, connVars, nreplVars, replVars, portVars, pageVars, evalVars, moreVars>>

outsideRepl == <<connVars, nreplVars, rpcVars, portVars, pageVars, evalVars, moreVars>>

outsidePort == <<sessionVars, connVars, nreplVars, rpcVars, replVars, pageVars, evalVars, moreVars>>

outsidePage == <<sessionVars, connVars, nreplVars, rpcVars, replVars, portVars, evalVars, moreVars>>

outsideEval == <<sessionVars, connVars, rpcVars, replVars, portVars, moreVars>>

outsideClassify ==
  <<sessionVars, connVars, nreplVars, rpcVars, replVars, portVars, pageVars, evalVars,
    methodVars, launchVars, runtimeVars>>

outsideMethod ==
  <<sessionVars, connVars, nreplVars, rpcVars, replVars, portVars, pageVars, evalVars,
    classifyVars, launchVars, runtimeVars>>

outsideLaunch ==
  <<sessionVars, connVars, nreplVars, rpcVars, replVars, portVars, pageVars, evalVars,
    classifyVars, methodVars, runtimeVars>>

\* injectRuntime works on the connection
outsideRuntime ==
  <<sessionVars, connVars, nreplVars, rpcVars, replVars, portVars, evalVars,
    classifyVars, methodVars, launchVars>>

NotCalled == [tag |-> "not-called"]

\* working directories, and the one process.cwd() returns
Dirs == {<<"/", "p", "r", "o", "j", "e", "c", "t">>, <<"/", "o", "t", "h", "e", "r">>}

ProcessCwd == <<"/", "p", "r", "o", "j", "e", "c", "t">>

\* there is no file of that name
NoFile == [t |-> "absent"]

File(text) == [t |-> "file", text |-> text]

\* startNreplServer has not been called
NotStarted == [state |-> "not-started"]

\* no nREPL server has been started and no directory has a discovery file
NoServers ==
  /\ servers = [s \in 1..MaxServers |-> NotStarted]
  /\ files = [d \in Dirs |-> NoFile]

\* the URLs of the pages of the browser context, as context.pages() lists them
PageUrls == <<<<"h", "t", "t", "p", ":", "/", "/", "l", "o", "c", "a", "l", "h", "o", "s", "t", "/", "A", "p", "p">>, <<"h", "t", "t", "p", ":", "/", "/", "l", "o", "c", "a", "l", "h", "o", "s", "t", "/", "d", "o", "c", "s">>>>

\* a ChromeConnection as constructed
NoBrowser ==
  /\ browser = FALSE
  /\ currentPage = 0
  /\ cdpSession = 0
  /\ globals = [p \in 1..Len(PageUrls) |-> {}]
  /\ replaced = {}
  /\ lastRun = NotCalled

\* no eval request has been answered
NotObserved == observed = [prev |-> NotCalled, last |-> NotCalled]

\* classifyConnectError is not exercised on its own
NotClassified == thrown = NotCalled /\ classification = "unclassified"

NotInvoked == invoked = NotCalled /\ evaluatorCalls = <<>> /\ returned = NotCalled

\* launchChrome is not called on a machine without Chrome
NotLaunched ==
  /\ chromeAt = "none" /\ listening = FALSE /\ profileLock = FALSE
  /\ spawned = 0 /\ sessionState = 0 /\ launches = <<>>

\* cljs/runtime.ts as loaded
RuntimeLoaded == cachedScript = FALSE /\ lastInjectedPage = 0 /\ injections = <<>>

\* the components of the later sections are not exercised
RestIdle ==
  NoServers /\ NoBrowser /\ NotObserved /\ NotClassified /\ NotInvoked /\ NotLaunched /\ RuntimeLoaded

\* no JsonRpcProtocol is exercised on its own
RpcIdle ==
  /\ rpcInput = [kind |-> "blank", text |-> <<>>]
  /\ rpcParsed = NotCalled
  /\ rpcValue = NotCalled
  /\ rpcLine = NotCalled
  /\ rpcRead = NotCalled

\* sockets accepted by the one server
Conns == {1, 2}

\* the server listens: no socket has received anything
NreplListening ==
  /\ sessions = {}
  /\ uuids = {}
  /\ buffer = [c \in Conns |-> <<>>]
  /\ wire = [c \in Conns |-> <<>>]
  /\ written = [c \in Conns |-> <<>>]
  /\ chunks = [c \in Conns |-> 0]
  /\ requests = <<>>
  /\ evaluating = {}
  /\ socketOut = <<>>

(***************************************************************************)
(* String primitives of the JavaScript runtime, on character sequences.    *)
(***************************************************************************)
UpperChars == <<"A", "B", "C", "D", "E", "F", "G", "H", "I", "J", "K", "L", "M", "N", "O", "P", "Q", "R", "S", "T", "U", "V", "W", "X", "Y", "Z">>

LowerChars == <<"a", "b", "c", "d", "e", "f", "g", "h", "i", "j", "k", "l", "m", "n", "o", "p", "q", "r", "s", "t", "u", "v", "w", "x", "y", "z">>

LowerChar(c) ==
  IF \E i \in 1..Len(UpperChars) : UpperChars[i] = c
  THEN LowerChars[CHOOSE i \in 1..Len(UpperChars) : UpperChars[i] = c]
  ELSE c

toLowerCase(s) == [i \in 1..Len(s) |-> LowerChar(s[i])]

IsWhitespace(c) == c \in {" ", "\t"}

RECURSIVE trimStart(_)
trimStart(s) ==
  IF s # <<>> /\ IsWhitespace(Head(s)) THEN trimStart(Tail(s)) ELSE s

RECURSIVE trimEnd(_)
trimEnd(s) ==
  IF s # <<>> /\ IsWhitespace(s[Len(s)])
  THEN trimEnd(SubSeq(s, 1, Len(s) - 1))
  ELSE s

trim(s) == trimEnd(trimStart(s))

\* String.prototype.indexOf for a one-character pattern: 0-based, -1 if absent
indexOf(s, c) ==
  IF \E i \in 1..Len(s) : s[i] = c
  THEN (CHOOSE i \in 1..Len(s) : s[i] = c /\ \A j \in 1..(i - 1) : s[j] # c) - 1
  ELSE -1

\* String.prototype.slice(from, to) with 0-based, non-negative arguments
slice(s, from, to) == SubSeq(s, from + 1, to)

startsWith(s, c) == s # <<>> /\ s[1] = c

includes(s, pat) ==
  \E i \in 0..(Len(s) - Len(pat)) : SubSeq(s, i + 1, i + Len(pat)) = pat

(***************************************************************************)
(* JavaScript values that cross the protocol boundary.                     *)
(***************************************************************************)
Undefined == [t |-> "undefined"]

JNull == [t |-> "null"]

JStr(s) == [t |-> "string", v |-> s]

JNum(n) == [t |-> "number", v |-> n]

JArr(a) == [t |-> "array", v |-> a]

JObj(f) == [t |-> "object", v |-> f]

\* the function with no keys: the object literal {}
EmptyObject == [k \in {} |-> Undefined]

\* o.k for an own data property of a plain parsed object, undefined if absent
Get(o, k) == IF k \in DOMAIN o THEN o[k] ELSE Undefined

\* a ?? b
Coalesce(a, b) == IF a = Undefined \/ a = JNull THEN b ELSE a

(***************************************************************************)
(* Properties every object literal inherits from Object.prototype.  A      *)
(* lookup obj[key] on a plain object falls back to these.                  *)
(***************************************************************************)
ObjectPrototypeKeys ==
  {<<"c", "o", "n", "s", "t", "r", "u", "c", "t", "o", "r">>, <<"_", "_", "p", "r", "o", "t", "o", "_", "_">>, <<"t", "o", "S", "t", "r", "i", "n", "g">>, <<"v", "a", "l", "u", "e", "O", "f">>, <<"t", "o", "L", "o", "c", "a", "l", "e", "S", "t", "r", "i", "n", "g">>,
   <<"h", "a", "s", "O", "w", "n", "P", "r", "o", "p", "e", "r", "t", "y">>, <<"i", "s", "P", "r", "o", "t", "o", "t", "y", "p", "e", "O", "f">>, <<"p", "r", "o", "p", "e", "r", "t", "y", "I", "s", "E", "n", "u", "m", "e", "r", "a", "b", "l", "e">>,
   <<"_", "_", "d", "e", "f", "i", "n", "e", "G", "e", "t", "t", "e", "r", "_", "_">>, <<"_", "_", "d", "e", "f", "i", "n", "e", "S", "e", "t", "t", "e", "r", "_", "_">>, <<"_", "_", "l", "o", "o", "k", "u", "p", "G", "e", "t", "t", "e", "r", "_", "_">>, <<"_", "_", "l", "o", "o", "k", "u", "p", "S", "e", "t", "t", "e", "r", "_", "_">>}

\* what a call f(a, b, c) of the inherited member does when f is called as a
\* plain function (this = undefined)
ObjectPrototypeMember(key) ==
  CASE key = <<"c", "o", "n", "s", "t", "r", "u", "c", "t", "o", "r">> -> "Object"
    [] key = <<"_", "_", "p", "r", "o", "t", "o", "_", "_">>   -> "not-callable"
    [] key = <<"t", "o", "S", "t", "r", "i", "n", "g">>    -> "toString"
    [] key \in ObjectPrototypeKeys -> "throws-on-undefined-this"
    [] OTHER -> "undefined"

(***************************************************************************)
(* Protocol contract (session/protocol.ts)                                 *)
(***************************************************************************)
ParsedNull == [tag |-> "null"]

\* shape "Request" is an object literal {id?, method, params}; shape
\* "StringObject" is what Object(args) returns for a string argument
ParsedRequest(id, method, params) ==
  [tag |-> "request", shape |-> "Request", id |-> id, method |-> method, params |-> params]

ProtocolError(code, message, id) ==
  [tag |-> "error", kind |-> "protocol-error", code |-> code, message |-> message, id |-> id]

\* parse did not return: it threw a TypeError
ParseThrows == [tag |-> "throw"]

isProtocolError(v) == v.tag = "error" /\ v.kind = "protocol-error"

(***************************************************************************)
(* REPL protocol adapter (session/repl-protocol.ts)                        *)
(***************************************************************************)
LOCAL_COMMANDS ==
  {<<"h", "e", "l", "p">>, <<"h">>, <<"?">>, <<"w", "a", "t", "c", "h">>, <<"w">>, <<"b", "u", "i", "l", "d">>, <<"b">>,
   <<"c", "o", "n", "f", "i", "g">>, <<"c", "f", "g">>, <<"c", "l", "e", "a", "r">>, <<"c", "l", "s">>, <<"e", "x", "i", "t">>, <<"q", "u", "i", "t">>, <<"q">>,
   <<"o", "p", "e", "n">>, <<"o">>, <<"g", "o", "t", "o">>}

TabsKeys == {<<"t", "a", "b", "s">>, <<"t">>, <<"p", "a", "g", "e", "s">>}

SelectTabKeys == {<<"t", "a", "b">>, <<"s", "e", "l", "e", "c", "t">>}

InjectKeys == {<<"i", "n", "j", "e", "c", "t">>, <<"i">>, <<"l", "o", "a", "d">>}

ReloadKeys == {<<"r", "e", "l", "o", "a", "d">>, <<"r">>}

\* own keys of the object literal DISPATCH_MAP
DispatchKeys == TabsKeys \cup SelectTabKeys \cup InjectKeys \cup ReloadKeys

\* the builders pass the remainder on as it is
DispatchBuilder_RawArgs(name, args) ==
  CASE name \in TabsKeys      -> ParsedRequest(Undefined, <<"t", "a", "b", "s">>, EmptyObject)
    [] name \in SelectTabKeys -> ParsedRequest(Undefined, <<"s", "e", "l", "e", "c", "t", "T", "a", "b">>, [k \in {"pattern"} |-> JStr(args)])
    [] name \in InjectKeys    -> ParsedRequest(Undefined, <<"i", "n", "j", "e", "c", "t">>, [k \in {"ref"} |-> JStr(args)])
    [] name \in ReloadKeys    -> ParsedRequest(Undefined, <<"r", "e", "l", "o", "a", "d">>, EmptyObject)

\* the request builders of DISPATCH_MAP
DispatchBuilder(name, args) ==
  CASE name \in TabsKeys      -> ParsedRequest(Undefined, <<"t", "a", "b", "s">>, EmptyObject)
    [] name \in SelectTabKeys -> ParsedRequest(Undefined, <<"s", "e", "l", "e", "c", "t", "T", "a", "b">>, [k \in {"pattern"} |-> JStr(trim(args))])
    [] name \in InjectKeys    -> ParsedRequest(Undefined, <<"i", "n", "j", "e", "c", "t">>, [k \in {"ref"} |-> JStr(trim(args))])
    [] name \in ReloadKeys    -> ParsedRequest(Undefined, <<"r", "e", "l", "o", "a", "d">>, EmptyObject)

\* DISPATCH_MAP[name]: "builder" for an own key, else the inherited member
DISPATCH_MAP(name) ==
  IF name \in DispatchKeys THEN "builder" ELSE ObjectPrototypeMember(name)

\* the command name is not lowercased
parseDotCommand_CaseSensitive(input) ==
  LET spaceIndex == indexOf(input, " ")
      name == IF spaceIndex > 0 THEN slice(input, 1, spaceIndex) ELSE slice(input, 1, Len(input))
      args == IF spaceIndex > 0 THEN slice(input, spaceIndex + 1, Len(input)) ELSE <<>>
  IN [name |-> name, args |-> args]

parseDotCommand(input) ==
  LET spaceIndex == indexOf(input, " ")
      name == IF spaceIndex > 0 THEN slice(input, 1, spaceIndex) ELSE slice(input, 1, Len(input))
      args == IF spaceIndex > 0 THEN slice(input, spaceIndex + 1, Len(input)) ELSE <<>>
  IN [name |-> toLowerCase(name), args |-> args]

UnknownCommandMessage(name) ==
  <<"U", "n", "k", "n", "o", "w", "n", " ", "c", "o", "m", "m", "a", "n", "d", ":", " ", ".">> \o name \o <<"\n", "T", "y", "p", "e", " ", ".", "h", "e", "l", "p", " ", "f", "o", "r", " ", "a", "v", "a", "i", "l", "a", "b", "l", "e", " ", "c", "o", "m", "m", "a", "n", "d", "s">>

\* bare text is evaluated in the default language whatever the adapter was given
ReplParse_DefaultLanguage(input, language) ==
  LET trimmed == trim(input) IN
  IF trimmed = <<>> THEN ParsedNull
  ELSE IF startsWith(trimmed, ".") THEN
    LET cmd == parseDotCommand(trimmed)
        builder == DISPATCH_MAP(cmd.name)
    IN IF cmd.name \in LOCAL_COMMANDS THEN ParsedNull
       ELSE IF builder = "builder" THEN DispatchBuilder(cmd.name, cmd.args)
       ELSE IF builder = "Object" THEN
         [tag |-> "request", shape |-> "StringObject", id |-> Undefined,
          method |-> <<"u", "n", "d", "e", "f", "i", "n", "e", "d">>, params |-> Undefined]
       ELSE IF builder = "not-callable" THEN ParseThrows
       ELSE ProtocolError(-1, UnknownCommandMessage(cmd.name), Undefined)
  ELSE ParsedRequest(Undefined, <<"e", "v", "a", "l">>,
                     [k \in {"code", "lang"} |-> IF k = "code" THEN JStr(trimmed) ELSE JStr(<<"j", "s">>)])

ReplParse(input, language) ==
  LET trimmed == trim(input) IN
  IF trimmed = <<>> THEN ParsedNull
  ELSE IF startsWith(trimmed, ".") THEN
    LET cmd == parseDotCommand(trimmed)
        builder == DISPATCH_MAP(cmd.name)
    IN IF cmd.name \in LOCAL_COMMANDS THEN ParsedNull
       ELSE IF builder = "builder" THEN DispatchBuilder(cmd.name, cmd.args)
       \* Object(args): a String wrapper object; it has no method, params or kind
       ELSE IF builder = "Object" THEN
         [tag |-> "request", shape |-> "StringObject", id |-> Undefined,
          method |-> <<"u", "n", "d", "e", "f", "i", "n", "e", "d">>, params |-> Undefined]
       \* a truthy value that is not a function: calling it throws
       ELSE IF builder = "not-callable" THEN ParseThrows
       ELSE ProtocolError(-1, UnknownCommandMessage(cmd.name), Undefined)
  ELSE ParsedRequest(Undefined, <<"e", "v", "a", "l">>,
                     [k \in {"code", "lang"} |-> IF k = "code" THEN JStr(trimmed) ELSE JStr(language)])

\* an inject command without argument clears lastInjectRef
ReplLastInjectRef_ClearedByEmpty(input, old) ==
  LET trimmed == trim(input)
      cmd == parseDotCommand(trimmed)
  IN IF /\ trimmed # <<>>
        /\ startsWith(trimmed, ".")
        /\ cmd.name \notin LOCAL_COMMANDS
        /\ DISPATCH_MAP(cmd.name) = "builder"
        /\ DispatchBuilder(cmd.name, cmd.args).method = <<"i", "n", "j", "e", "c", "t">>
     THEN (IF trim(cmd.args) # <<>> THEN JStr(trim(cmd.args)) ELSE JNull)
     ELSE old

\* the value of lastInjectRef after parse(input)
ReplLastInjectRef(input, old) ==
  LET trimmed == trim(input)
      cmd == parseDotCommand(trimmed)
  IN IF /\ trimmed # <<>>
        /\ startsWith(trimmed, ".")
        /\ cmd.name \notin LOCAL_COMMANDS
        /\ DISPATCH_MAP(cmd.name) = "builder"
        /\ DispatchBuilder(cmd.name, cmd.args).method = <<"i", "n", "j", "e", "c", "t">>
        /\ trim(cmd.args) # <<>>
     THEN JStr(trim(cmd.args))
     ELSE old

\* handleLocal: TRUE when the line is a local command that findCommand knows
\* (every name of LOCAL_COMMANDS is a name or alias in repl/commands.ts)
ReplIsLocal(input) ==
  LET trimmed == trim(input) IN
  /\ trimmed # <<>>
  /\ startsWith(trimmed, ".")
  /\ parseDotCommand(trimmed).name \in LOCAL_COMMANDS

\* no ReplProtocol is exercised on its own
ReplIdle ==
  /\ replLast = NotCalled
  /\ replInjected = JNull

(***************************************************************************)
(* JSON-RPC protocol adapter (session/jsonrpc-protocol.ts).  An input line *)
(* is blank, text that JSON.parse rejects, or a JSON document.             *)
(***************************************************************************)
PARSE_ERROR == -32700

INVALID_REQUEST == -32600

METHOD_NOT_FOUND == -32601

INVALID_PARAMS == -32602

INTERNAL_ERROR == -32603

BlankLine == [kind |-> "blank"]

MalformedLine == [kind |-> "malformed"]

JsonLine(value) == [kind |-> "json", value |-> value]

\* the params check is made before the method check
JsonRpcParse_ParamsFirst(line) ==
  IF line.kind = "blank" THEN ParsedNull
  ELSE IF line.kind = "malformed" THEN ProtocolError(PARSE_ERROR, <<"Parse error">>, Undefined)
  ELSE IF line.value.t # "object" THEN ProtocolError(INVALID_REQUEST, <<"Invalid request">>, Undefined)
  ELSE
    LET req == line.value.v
        id == Get(req, "id")
        method == Get(req, "method")
        params == Get(req, "params")
    IN IF Get(req, "jsonrpc") # JStr(<<"2", ".", "0">>)
       THEN ProtocolError(INVALID_REQUEST, <<"Invalid request: missing jsonrpc \"2.0\"">>, id)
       ELSE IF params # Undefined /\ params.t # "object"
       THEN ProtocolError(INVALID_PARAMS, <<"Invalid params: must be an object">>, id)
       ELSE IF method.t # "string" \/ method.v = <<>>
       THEN ProtocolError(INVALID_REQUEST, <<"Invalid request: missing method">>, id)
       ELSE ParsedRequest(id, method.v, IF params = Undefined THEN EmptyObject ELSE params.v)

\* the error for a missing method does not carry the id
JsonRpcParse_MethodErrorWithoutId(line) ==
  IF line.kind = "blank" THEN ParsedNull
  ELSE IF line.kind = "malformed" THEN ProtocolError(PARSE_ERROR, <<"Parse error">>, Undefined)
  ELSE IF line.value.t # "object" THEN ProtocolError(INVALID_REQUEST, <<"Invalid request">>, Undefined)
  ELSE
    LET req == line.value.v
        id == Get(req, "id")
        method == Get(req, "method")
        params == Get(req, "params")
    IN IF Get(req, "jsonrpc") # JStr(<<"2", ".", "0">>)
       THEN ProtocolError(INVALID_REQUEST, <<"Invalid request: missing jsonrpc \"2.0\"">>, id)
       ELSE IF method.t # "string" \/ method.v = <<>>
       THEN ProtocolError(INVALID_REQUEST, <<"Invalid request: missing method">>, Undefined)
       ELSE IF params # Undefined /\ params.t # "object"
       THEN ProtocolError(INVALID_PARAMS, <<"Invalid params: must be an object">>, id)
       ELSE ParsedRequest(id, method.v, IF params = Undefined THEN EmptyObject ELSE params.v)

JsonRpcParse(line) ==
  IF line.kind = "blank" THEN ParsedNull
  ELSE IF line.kind = "malformed" THEN ProtocolError(PARSE_ERROR, <<"Parse error">>, Undefined)
  ELSE IF line.value.t # "object" THEN ProtocolError(INVALID_REQUEST, <<"Invalid request">>, Undefined)
  ELSE
    LET req == line.value.v
        id == Get(req, "id")
        method == Get(req, "method")
        params == Get(req, "params")
    IN IF Get(req, "jsonrpc") # JStr(<<"2", ".", "0">>)
       THEN ProtocolError(INVALID_REQUEST, <<"Invalid request: missing jsonrpc \"2.0\"">>, id)
       ELSE IF method.t # "string" \/ method.v = <<>>
       THEN ProtocolError(INVALID_REQUEST, <<"Invalid request: missing method">>, id)
       ELSE IF params # Undefined /\ params.t # "object"
       THEN ProtocolError(INVALID_PARAMS, <<"Invalid params: must be an object">>, id)
       ELSE ParsedRequest(id, method.v, IF params = Undefined THEN EmptyObject ELSE params.v)

\* the id is taken from the line read last, not from the request answered
JsonRpcFormatResult_LastRequest(request, result) ==
  LET last == lines[Len(lines)].parsed IN
  [jsonrpc |-> "2.0",
   id |-> IF last.tag \in {"request", "error"} THEN Coalesce(last.id, JNull) ELSE JNull,
   result |-> Coalesce(result, JNull)]

JsonRpcFormatResult(request, result) ==
  [jsonrpc |-> "2.0", id |-> Coalesce(request.id, JNull), result |-> Coalesce(result, JNull)]

\* request is a parsed request, or JNull for formatError(null, ...)
JsonRpcFormatError(request, code, message) ==
  [jsonrpc |-> "2.0",
   id |-> IF request = JNull THEN JNull ELSE Coalesce(request.id, JNull),
   error |-> [code |-> code, message |-> message]]

(***************************************************************************)
(* REPL formatting (session/repl-protocol.ts)                              *)
(***************************************************************************)
\* commands/eval.ts formatValue: strings quoted, other values rendered
formatValue(v) ==
  IF v.t = "string" THEN <<"\"">> \o v.v \o <<"\"">> ELSE <<"<", v.t, ">">>

ReplFormatResult(request, result) ==
  IF result = Undefined THEN <<>>
  ELSE IF result.t = "object" /\ "formatted" \in DOMAIN result.v THEN result.v["formatted"].v
  ELSE formatValue(result)

ReplFormatError(request, code, message) == <<"Error: ">> \o message

\* repl/commands.ts: what a local command prints (joined); empty for the
\* commands that print nothing
LocalOutput(name) ==
  IF name \in {<<"c", "l", "e", "a", "r">>, <<"c", "l", "s">>, <<"e", "x", "i", "t">>, <<"q", "u", "i", "t">>, <<"q">>} THEN <<>>
  ELSE <<"local: ">> \o name

LocalExits(name) == name \in {<<"e", "x", "i", "t">>, <<"q", "u", "i", "t">>, <<"q">>}

(***************************************************************************)
(* Built-in method handlers (session/session.ts builtinMethods).  What the *)
(* browser answers is the environment's choice; the parameter checks are   *)
(* the code's.                                                             *)
(***************************************************************************)
DigitChars == <<"0", "1", "2", "3", "4", "5", "6", "7", "8", "9">>

IsDigit(ch) == \E i \in 1..10 : DigitChars[i] = ch

DigitValue(ch) == (CHOOSE i \in 1..10 : DigitChars[i] = ch) - 1

\* String(n) for an integer n
RECURSIVE NatDigits(_)
NatDigits(n) == IF n < 10 THEN <<DigitChars[n + 1]>> ELSE NatDigits(n \div 10) \o <<DigitChars[(n % 10) + 1]>>

IntDigits(n) == IF n < 0 THEN <<"-">> \o NatDigits(0 - n) ELSE NatDigits(n)

\* String(value) for the values that are not Errors; an array is its elements
\* joined by commas, null and undefined elements as the empty string
RECURSIVE StringOf(_)
StringOf(v) ==
  LET RECURSIVE Joined(_)
      Joined(items) ==
        IF items = <<>> THEN <<>>
        ELSE (IF items[1].t \in {"null", "undefined"} THEN <<>> ELSE StringOf(items[1]))
               \o (IF Len(items) = 1 THEN <<>> ELSE <<",">> \o Joined(Tail(items)))
  IN CASE v.t = "string" -> v.v
       [] v.t = "number" -> IntDigits(v.v)
       [] v.t = "null" -> <<"n", "u", "l", "l">>
       [] v.t = "undefined" -> <<"u", "n", "d", "e", "f", "i", "n", "e", "d">>
       [] v.t = "boolean" -> IF v.v THEN <<"t", "r", "u", "e">> ELSE <<"f", "a", "l", "s", "e">>
       [] v.t = "array" -> Joined(v.v)
       [] OTHER -> <<"[", "o", "b", "j", "e", "c", "t", " ", "O", "b", "j", "e", "c", "t", "]">>

Resolve(v) == [ok |-> TRUE, value |-> v]

Reject(message) == [ok |-> FALSE, message |-> message]

\* String(v) of a parameter
JsString(v) == StringOf(v)

StructuredResult(text) == JObj([k \in {"formatted"} |-> JStr(text)])

BackendOutcomes == {Resolve(JStr(<<"o", "k">>)), Resolve(Undefined), Reject(<<"boom">>)}

\* the evaluator is called with the code
Routed(evaluator, code) == [rejected |-> FALSE, evaluator |-> evaluator, code |-> code]

\* the method throws before it calls an evaluator
Refused(message) == [rejected |-> TRUE, message |-> message]

\* a lang that is neither js nor cljs is evaluated as JavaScript
EvalRoute_UnknownLangIsJs(params) ==
  LET code == JsString(Coalesce(Get(params, "code"), JStr(<<>>)))
      language == JsString(Coalesce(Get(params, "lang"), JStr(<<"j", "s">>)))
  IN IF code = <<>> THEN Refused(<<"Missing param: code">>)
     ELSE IF language = <<"c", "l", "j", "s">> THEN Routed("evaluateCljs", code)
     ELSE Routed("evaluate", code)

\* builtinMethods.eval up to its await: the parameter checks and the
\* evaluator it calls
EvalRoute(params) ==
  LET code == JsString(Coalesce(Get(params, "code"), JStr(<<>>)))
      language == JsString(Coalesce(Get(params, "lang"), JStr(<<"j", "s">>)))
  IN IF code = <<>> THEN Refused(<<"Missing param: code">>)
     ELSE IF language = <<"c", "l", "j", "s">> THEN Routed("evaluateCljs", code)
     ELSE IF language # <<"j", "s">> THEN Refused(<<"Unknown lang: ">> \o language \o <<". Supported: js, cljs">>)
     ELSE Routed("evaluate", code)

\* { ...params, lang: 'cljs' }
WithCljs(params) ==
  [k \in (DOMAIN params) \cup {"lang"} |-> IF k = "lang" THEN JStr(<<"c", "l", "j", "s">>) ELSE params[k]]

BuiltinEval(params) ==
  LET route == EvalRoute(params)
  IN IF route.rejected THEN {Reject(route.message)} ELSE BackendOutcomes

BuiltinNames == {<<"e", "v", "a", "l">>, <<"c", "l", "j", "s", "-", "e", "v", "a", "l">>, <<"t", "a", "b", "s">>, <<"s", "e", "l", "e", "c", "t", "T", "a", "b">>, <<"i", "n", "j", "e", "c", "t">>, <<"r", "e", "l", "o", "a", "d">>}

\* the outcomes a built-in handler can settle with
builtinMethods(name, params) ==
  CASE name = <<"e", "v", "a", "l">> -> BuiltinEval(params)
    [] name = <<"c", "l", "j", "s", "-", "e", "v", "a", "l">> ->
         BuiltinEval(WithCljs(params))
    [] name = <<"t", "a", "b", "s">> -> {Resolve(StructuredResult(<<"No tabs open">>)), Reject(<<"boom">>)}
    [] name = <<"s", "e", "l", "e", "c", "t", "T", "a", "b">> ->
         LET pattern == JsString(Coalesce(Get(params, "pattern"), JStr(<<>>)))
         IN IF pattern = <<>> THEN {Reject(<<"Missing param: pattern">>)}
            ELSE {Resolve(StructuredResult(<<"Switched to: ">>)), Reject(<<"No tab matching: ">> \o pattern)}
    [] name = <<"i", "n", "j", "e", "c", "t">> ->
         LET ref == JsString(Coalesce(Get(params, "ref"), JStr(<<>>)))
         IN IF ref = <<>> THEN {Reject(<<"Missing param: ref">>)}
            ELSE {Resolve(StructuredResult(<<"Injected: ">>)), Reject(<<"boom">>)}
    [] name = <<"r", "e", "l", "o", "a", "d">> -> {Resolve(StructuredResult(<<"Reloaded">>)), Reject(<<"boom">>)}

(***************************************************************************)
(* Session (session/session.ts)                                            *)
(***************************************************************************)
NoHandler == [kind |-> "undefined"]

BuiltinHandler(name) == [kind |-> "builtin", name |-> name]

CustomHandler(h) == [kind |-> "custom", name |-> h]

CustomHandlers == {"custom1"}

RegNames == {<<"e", "c", "h", "o">>, <<"e", "v", "a", "l">>}

\* this.methods[key]: the registry is an object literal, so a key that is not
\* an own property is looked up on Object.prototype
MethodLookup(ms, key) ==
  IF key \in DOMAIN ms THEN ms[key]
  ELSE IF ObjectPrototypeMember(key) = "undefined" THEN NoHandler
  ELSE [kind |-> "inherited", name |-> ObjectPrototypeMember(key)]

\* calling the handler throws before any promise exists
ThrowsSynchronously(handler) ==
  handler.kind = "inherited" /\ handler.name \in {"not-callable", "throws-on-undefined-this"}

\* the outcomes an invoked handler can settle with
HandlerOutcomes(handler, params) ==
  CASE handler.kind = "builtin" -> builtinMethods(handler.name, params)
    [] handler.kind = "custom" -> BackendOutcomes
    \* Object(params) returns params itself
    [] handler.kind = "inherited" /\ handler.name = "Object" -> {Resolve(JObj(params))}
    \* Object.prototype.toString.call(undefined)
    [] handler.kind = "inherited" /\ handler.name = "toString" -> {Resolve(JStr(<<"[", "o", "b", "j", "e", "c", "t", " ", "U", "n", "d", "e", "f", "i", "n", "e", "d", "]">>))}

Parse(line) == IF protocol = "repl" THEN ReplParse(line, lang) ELSE JsonRpcParse(line)

FormatResult(request, result) ==
  IF protocol = "repl" THEN ReplFormatResult(request, result) ELSE JsonRpcFormatResult(request, result)

FormatError(request, code, message) ==
  IF protocol = "repl" THEN ReplFormatError(request, code, message)
  ELSE JsonRpcFormatError(request, code, message)

\* Session.write: one output line; src is the input line it answers
Written(n, data) == Append(output, [src |-> n, data |-> data])

\* the handler's error is reported with the code of an unknown method
HandlerErrorResponse_WrongCode(request, message) == FormatError(request, METHOD_NOT_FOUND, message)

\* the response to a handler that threw or rejected
HandlerErrorResponse(request, message) == FormatError(request, INTERNAL_ERROR, message)

MethodNotFoundResponse(request) ==
  FormatError(request, METHOD_NOT_FOUND, <<"Unknown method: ">> \o request.method)

(***************************************************************************)
(* Input lines                                                             *)
(***************************************************************************)
ReplInputs ==
  {<<".", "T", "A", "B", " ", "0">>, <<".", "h", "e", "l", "p">>, <<".", "E", "X", "I", "T">>, <<".", "f", "o", "o", "b", "a", "r">>, <<".", "c", "o", "n", "s", "t", "r", "u", "c", "t", "o", "r">>, <<".", "_", "_", "p", "r", "o", "t", "o", "_", "_">>, <<" ", "1", "+", "1", " ">>}

\* a JSON-RPC envelope; an Undefined argument leaves the member out
Envelope(jsonrpc, id, method, params) ==
  LET val(k) == CASE k = "jsonrpc" -> jsonrpc [] k = "id" -> id
                  [] k = "method" -> method [] k = "params" -> params
  IN JsonLine(JObj([k \in {k \in {"jsonrpc", "id", "method", "params"} : val(k) # Undefined} |-> val(k)]))

V2 == JStr(<<"2", ".", "0">>)

JsonRpcInputs ==
  {BlankLine,
   MalformedLine,
   Envelope(Undefined, JNum(1), JStr(<<"e", "v", "a", "l">>), Undefined),
   Envelope(V2, JNum(1), JStr(<<"e", "v", "a", "l">>), JObj([k \in {"code"} |-> JStr(<<"1", "+", "1">>)])),
   Envelope(V2, JNum(2), JStr(<<"e", "c", "h", "o">>), Undefined),
   Envelope(V2, Undefined, JStr(<<"n", "o", "s", "u", "c", "h">>), Undefined),
   Envelope(V2, JNum(2), JStr(<<"t", "o", "S", "t", "r", "i", "n", "g">>), Undefined),
   Envelope(V2, JNum(1), JStr(<<"_", "_", "p", "r", "o", "t", "o", "_", "_">>), Undefined)}

Inputs == IF protocol = "repl" THEN ReplInputs ELSE JsonRpcInputs

(***************************************************************************)
(* Session operations                                                      *)
(***************************************************************************)
\* constructor: methods = { ...builtinMethods }; prompts is what
\* options.prompt can be
ConstructedWith(prompts, langs) ==
  /\ protocol \in {"repl", "jsonrpc"}
  /\ prompt \in prompts
  /\ prompted = FALSE
  /\ registered = <<>>
  /\ localContext \in (IF protocol = "repl" THEN BOOLEAN ELSE {FALSE})
  /\ lang \in langs
  /\ lastInjectRef = JNull
  /\ methods = [m \in BuiltinNames |-> BuiltinHandler(m)]
  /\ running = FALSE
  /\ rl = "null"
  /\ startPromise = "none"
  /\ inflight = {}
  /\ output = <<>>
  /\ lines = <<>>
  /\ settled = {}
  /\ escaped = {}
  /\ alive = TRUE
  /\ stopCalled = FALSE

\* the adapter's language is its default, 'js'
Constructed(prompts) == ConstructedWith(prompts, {<<"j", "s">>})

\* a session as commands/serve.ts constructs it: without a prompt
SessionConstructed == Constructed({FALSE})

\* the handlers passed to register for name m so far
Registrations(m) == IF m \in DOMAIN registered THEN registered[m] ELSE <<>>

Registered(m, h) ==
  [k \in (DOMAIN registered) \cup {m} |-> IF k = m THEN Append(Registrations(m), h) ELSE registered[k]]

\* a name that has a custom handler keeps it: the first registration wins
Register_KeepsFirst(m, h) ==
  /\ alive
  /\ MethodLookup(methods, m) # CustomHandler(h)
  /\ Len(Registrations(m)) < MaxRegistrations
  /\ methods' = [k \in (DOMAIN methods) \cup {m} |->
                   IF k = m /\ Registrations(m) = <<>> THEN CustomHandler(h) ELSE methods[k]]
  /\ registered' = Registered(m, h)
  /\ UNCHANGED <<protocol, prompt, prompted, localContext, lang, lastInjectRef, running, rl, startPromise,
                 inflight, output, lines, settled, escaped, alive, stopCalled>>
  /\ UNCHANGED outsideSession

\* register(method, handler), for a handler other than the one m has
Register(m, h) ==
  /\ alive
  /\ MethodLookup(methods, m) # CustomHandler(h)
  /\ Len(Registrations(m)) < MaxRegistrations
  /\ methods' = [k \in (DOMAIN methods) \cup {m} |-> IF k = m THEN CustomHandler(h) ELSE methods[k]]
  /\ registered' = Registered(m, h)
  /\ UNCHANGED <<protocol, prompt, prompted, localContext, lang, lastInjectRef, running, rl, startPromise,
                 inflight, output, lines, settled, escaped, alive, stopCalled>>
  /\ UNCHANGED outsideSession

\* start(), up to the promise it returns; with options.prompt, rl.prompt()
\* writes the prompt to the output
Start ==
  /\ alive
  /\ rl = "null"
  /\ running' = TRUE
  /\ rl' = "open"
  /\ startPromise' = "pending"
  /\ prompted' = prompt
  /\ UNCHANGED <<protocol, prompt, registered, localContext, lang, lastInjectRef, methods,
                 inflight, output, lines, settled, escaped, alive, stopCalled>>
  /\ UNCHANGED outsideSession

\* the 'close' listener that resolves the promise of start() is missing
CloseListeners_NotResolved ==
  /\ running' = FALSE
  /\ rl' = "closed"
  /\ UNCHANGED startPromise

\* the two 'close' listeners of start(): running = false, then resolve
CloseListeners ==
  /\ running' = FALSE
  /\ rl' = "closed"
  /\ startPromise' = "resolved"

\* the input stream ends: readline emits 'close'
InputEnd ==
  /\ alive
  /\ rl = "open"
  /\ CloseListeners
  /\ UNCHANGED <<protocol, prompt, prompted, registered, localContext, lang, lastInjectRef, methods,
                 inflight, output, lines, settled, escaped, alive, stopCalled>>
  /\ UNCHANGED outsideSession

\* stop(): running = false; rl.close() emits 'close' synchronously
Stop ==
  /\ alive
  /\ rl = "open"
  /\ CloseListeners
  /\ stopCalled' = TRUE
  /\ UNCHANGED <<protocol, prompt, prompted, registered, localContext, lang, lastInjectRef, methods,
                 inflight, output, lines, settled, escaped, alive>>
  /\ UNCHANGED outsideSession

LineArrives(raw) ==
  /\ alive
  /\ rl = "open"
  /\ Len(lines) < MaxLines
  /\ raw \in Inputs

HandledLocally(raw) == protocol = "repl" /\ localContext /\ ReplIsLocal(raw)

LineRecord(raw, route, parsed, handler) ==
  [raw |-> raw, route |-> route, parsed |-> parsed, handler |-> handler,
   known |-> parsed.tag = "request" /\ parsed.method \in DOMAIN methods,
   settledBefore |-> {x.n : x \in settled}]

\* handleLine, local branch: handleLocal runs the command and returns what it
\* printed; .exit calls the context's exit, which is stop()
LineLocal(raw) ==
  /\ LineArrives(raw)
  /\ HandledLocally(raw)
  /\ LET n == Len(lines) + 1
         name == parseDotCommand(trim(raw)).name
         text == LocalOutput(name)
     IN /\ lines' = Append(lines, LineRecord(raw, "local", ParsedNull, NoHandler))
        /\ output' = IF text # <<>> THEN Written(n, text) ELSE output
        /\ IF LocalExits(name)
           THEN CloseListeners /\ stopCalled' = TRUE
           ELSE UNCHANGED <<running, rl, startPromise, stopCalled>>
  /\ UNCHANGED <<protocol, prompt, prompted, registered, localContext, lang, lastInjectRef, methods,
                 inflight, settled, escaped, alive>>
  /\ UNCHANGED outsideSession

ParsedLine(raw, tag) ==
  /\ LineArrives(raw)
  /\ ~HandledLocally(raw)
  /\ Parse(raw).tag = tag

AfterParse(raw) ==
  lastInjectRef' = IF protocol = "repl" THEN ReplLastInjectRef(raw, lastInjectRef) ELSE lastInjectRef

\* handleLine: parse returns null
LineSkipped(raw) ==
  /\ ParsedLine(raw, "null")
  /\ lines' = Append(lines, LineRecord(raw, "skip", Parse(raw), NoHandler))
  /\ AfterParse(raw)
  /\ UNCHANGED <<protocol, prompt, prompted, registered, localContext, lang, methods, running, rl, startPromise,
                 inflight, output, settled, escaped, alive, stopCalled>>
  /\ UNCHANGED outsideSession

\* handleLine: parse throws; nothing catches it, the promise of the async
\* 'line' listener rejects, and the runtime either ends the process
\* (unhandled rejections throw) or only warns
LineParseThrows(raw) ==
  /\ ParsedLine(raw, "throw")
  /\ lines' = Append(lines, LineRecord(raw, "throw", Parse(raw), NoHandler))
  /\ escaped' = escaped \cup {Len(lines) + 1}
  /\ alive' \in BOOLEAN
  /\ UNCHANGED <<protocol, prompt, prompted, registered, localContext, lang, lastInjectRef, methods, running, rl,
                 startPromise, inflight, output, settled, stopCalled>>
  /\ UNCHANGED outsideSession

\* handleLine: parse returns a ProtocolError
LineProtocolError(raw) ==
  /\ ParsedLine(raw, "error")
  /\ LET parsed == Parse(raw) IN
     /\ lines' = Append(lines, LineRecord(raw, "protocol-error", parsed, NoHandler))
     /\ output' = Written(Len(lines) + 1, FormatError(JNull, parsed.code, parsed.message))
  /\ AfterParse(raw)
  /\ UNCHANGED <<protocol, prompt, prompted, registered, localContext, lang, methods, running, rl, startPromise,
                 inflight, settled, escaped, alive, stopCalled>>
  /\ UNCHANGED outsideSession

\* handleLine: this.methods[parsed.method] is falsy
LineUnknownMethod(raw) ==
  /\ ParsedLine(raw, "request")
  /\ LET parsed == Parse(raw) IN
     /\ MethodLookup(methods, parsed.method) = NoHandler
     /\ lines' = Append(lines, LineRecord(raw, "not-found", parsed, NoHandler))
     /\ output' = Written(Len(lines) + 1, MethodNotFoundResponse(parsed))
  /\ AfterParse(raw)
  /\ UNCHANGED <<protocol, prompt, prompted, registered, localContext, lang, methods, running, rl, startPromise,
                 inflight, settled, escaped, alive, stopCalled>>
  /\ UNCHANGED outsideSession

\* handleLine: the call handler(...) throws inside the try block
LineHandlerThrows(raw) ==
  /\ ParsedLine(raw, "request")
  /\ LET parsed == Parse(raw)
         handler == MethodLookup(methods, parsed.method)
         n == Len(lines) + 1
     IN /\ handler # NoHandler
        /\ ThrowsSynchronously(handler)
        /\ lines' = Append(lines, LineRecord(raw, "dispatched", parsed, handler))
        /\ settled' = settled \cup {[n |-> n, outcome |-> Reject(<<"TypeError">>)]}
        /\ output' = Written(n, HandlerErrorResponse(parsed, <<"TypeError">>))
  /\ AfterParse(raw)
  /\ UNCHANGED <<protocol, prompt, prompted, registered, localContext, lang, methods, running, rl, startPromise,
                 inflight, escaped, alive, stopCalled>>
  /\ UNCHANGED outsideSession

\* handleLine: the handler is invoked and handleLine suspends at the await
LineDispatched(raw) ==
  /\ ParsedLine(raw, "request")
  /\ LET parsed == Parse(raw)
         handler == MethodLookup(methods, parsed.method)
     IN /\ handler # NoHandler
        /\ ~ThrowsSynchronously(handler)
        /\ lines' = Append(lines, LineRecord(raw, "dispatched", parsed, handler))
        /\ inflight' = inflight \cup {[n |-> Len(lines) + 1, request |-> parsed, handler |-> handler]}
  /\ AfterParse(raw)
  /\ UNCHANGED <<protocol, prompt, prompted, registered, localContext, lang, methods, running, rl, startPromise,
                 output, settled, escaped, alive, stopCalled>>
  /\ UNCHANGED outsideSession

\* formatted is truthy: a non-empty string
Truthy(formatted) == IF protocol = "repl" THEN formatted # <<>> ELSE TRUE

\* the response is put before the responses to later lines
InsertBySrc(out, entry) ==
  LET before == SelectSeq(out, LAMBDA e : e.src <= entry.src)
      after == SelectSeq(out, LAMBDA e : e.src > entry.src)
  IN before \o <<entry>> \o after

\* responses are held back into arrival order
HandlerResolves_InArrivalOrder(inv, o) ==
  /\ alive
  /\ inv \in inflight
  /\ o \in HandlerOutcomes(inv.handler, inv.request.params)
  /\ o.ok
  /\ inflight' = inflight \ {inv}
  /\ settled' = settled \cup {[n |-> inv.n, outcome |-> o]}
  /\ LET formatted == FormatResult(inv.request, o.value)
     IN output' = IF Truthy(formatted)
                  THEN InsertBySrc(output, [src |-> inv.n, data |-> formatted])
                  ELSE output
  /\ UNCHANGED <<protocol, prompt, prompted, registered, localContext, lang, lastInjectRef, methods, running, rl,
                 startPromise, lines, escaped, alive, stopCalled>>
  /\ UNCHANGED outsideSession

\* handleLine resumes: the handler resolved
HandlerResolves(inv, o) ==
  /\ alive
  /\ inv \in inflight
  /\ o \in HandlerOutcomes(inv.handler, inv.request.params)
  /\ o.ok
  /\ inflight' = inflight \ {inv}
  /\ settled' = settled \cup {[n |-> inv.n, outcome |-> o]}
  /\ LET formatted == FormatResult(inv.request, o.value)
     IN output' = IF Truthy(formatted) THEN Written(inv.n, formatted) ELSE output
  /\ UNCHANGED <<protocol, prompt, prompted, registered, localContext, lang, lastInjectRef, methods, running, rl,
                 startPromise, lines, escaped, alive, stopCalled>>
  /\ UNCHANGED outsideSession

\* handleLine resumes: the handler rejected
HandlerRejects(inv, o) ==
  /\ alive
  /\ inv \in inflight
  /\ o \in HandlerOutcomes(inv.handler, inv.request.params)
  /\ ~o.ok
  /\ inflight' = inflight \ {inv}
  /\ settled' = settled \cup {[n |-> inv.n, outcome |-> o]}
  /\ output' = Written(inv.n, HandlerErrorResponse(inv.request, o.message))
  /\ UNCHANGED <<protocol, prompt, prompted, registered, localContext, lang, lastInjectRef, methods, running, rl,
                 startPromise, lines, escaped, alive, stopCalled>>
  /\ UNCHANGED outsideSession

\* every outcome any invocation can have
AllOutcomes == UNION {HandlerOutcomes(inv.handler, inv.request.params) : inv \in inflight}

ConnIdle ==
  /\ options = [host |-> "h1", port |-> 9222, retries |-> 0, retryDelayMs |-> 0, fallbackHosts |-> <<>>]
  /\ hostIndex = 1
  /\ attempt = 0
  /\ delay = 0
  /\ attempts = <<>>
  /\ pc = "idle"
  /\ outcome = [kind |-> "none"]
  /\ events = <<>>

SessionInit == SessionConstructed /\ ConnIdle /\ NreplListening /\ RpcIdle /\ ReplIdle /\ RestIdle

SessionNext ==
  \/ \E m \in RegNames, h \in CustomHandlers : Register(m, h)
  \/ Start
  \/ InputEnd
  \/ Stop
  \/ \E raw \in Inputs : LineLocal(raw)
  \/ \E raw \in Inputs : LineSkipped(raw)
  \/ \E raw \in Inputs : LineParseThrows(raw)
  \/ \E raw \in Inputs : LineProtocolError(raw)
  \/ \E raw \in Inputs : LineUnknownMethod(raw)
  \/ \E raw \in Inputs : LineHandlerThrows(raw)
  \/ \E raw \in Inputs : LineDispatched(raw)
  \/ \E inv \in inflight : \E o \in AllOutcomes : HandlerResolves(inv, o)
  \/ \E inv \in inflight : \E o \in AllOutcomes : HandlerRejects(inv, o)

SessionSpec == SessionInit /\ [][SessionNext]_vars

(***************************************************************************)
(* Connection resilience (chrome/resilience.ts)                            *)
(***************************************************************************)
DEFAULTS == [retries |-> 3, retryDelayMs |-> 500, backoffFactor |-> 2]

\* classifyConnectError: the message of an Error, lower-cased, is searched
\* for the known error codes
\* err instanceof Error ? err.message : String(err)
ErrorText(err) == IF "class" \in DOMAIN err THEN err.message ELSE StringOf(err)

\* the transient codes are looked for first
classifyConnectError_TransientFirst(err) ==
  LET message == toLowerCase(ErrorText(err)) IN
  IF \/ includes(message, <<"t", "i", "m", "e", "o", "u", "t">>)
     \/ includes(message, <<"e", "c", "o", "n", "n", "r", "e", "s", "e", "t">>)
     \/ includes(message, <<"e", "n", "o", "t", "f", "o", "u", "n", "d">>)
     \/ includes(message, <<"e", "h", "o", "s", "t", "u", "n", "r", "e", "a", "c", "h">>) THEN "transient"
  ELSE IF includes(message, <<"e", "p", "e", "r", "m">>) \/ includes(message, <<"e", "c", "o", "n", "n", "r", "e", "f", "u", "s", "e", "d">>) THEN "host-skip"
  ELSE "fatal"

classifyConnectError(err) ==
  LET message == toLowerCase(ErrorText(err)) IN
  IF includes(message, <<"e", "p", "e", "r", "m">>) \/ includes(message, <<"e", "c", "o", "n", "n", "r", "e", "f", "u", "s", "e", "d">>) THEN "host-skip"
  ELSE IF \/ includes(message, <<"t", "i", "m", "e", "o", "u", "t">>)
          \/ includes(message, <<"e", "c", "o", "n", "n", "r", "e", "s", "e", "t">>)
          \/ includes(message, <<"e", "n", "o", "t", "f", "o", "u", "n", "d">>)
          \/ includes(message, <<"e", "h", "o", "s", "t", "u", "n", "r", "e", "a", "c", "h">>) THEN "transient"
  ELSE "fatal"

\* messages a failed connect() can carry
ConnectMessages == {<<"E", "P", "E", "R", "M">>, <<"T", "i", "m", "e", "o", "u", "t">>, <<"E", "C", "O", "N", "N", "R", "E", "F", "U", "S", "E", "D", " ", "t", "i", "m", "e", "o", "u", "t">>, <<"b", "o", "o", "m">>}

HostNames == {"localhost", "127.0.0.1"}

DelayChoices == {0, 1, 500}

\* options.retries: absent, or the integer parseInt made of --retries, which
\* is not validated and can be negative
RetriesChoices == {Undefined} \cup {JNum(k) : k \in -2..MaxRetries}

\* sequences over set of length at most n
RECURSIVE SeqsUpTo(_, _)
SeqsUpTo(set, n) ==
  IF n = 0 THEN {<<>>}
  ELSE LET shorter == SeqsUpTo(set, n - 1)
       IN shorter \cup {Append(q, x) : q \in shorter, x \in set}

\* options.retries ?? DEFAULTS.retries
retries == IF options.retries = Undefined THEN DEFAULTS.retries ELSE options.retries.v

\* options.retryDelayMs ?? DEFAULTS.retryDelayMs
initialDelay ==
  IF options.retryDelayMs = Undefined THEN DEFAULTS.retryDelayMs ELSE options.retryDelayMs.v

\* [options.host, ...(options.fallbackHosts ?? [])]
hosts == <<options.host>> \o options.fallbackHosts

\* the error a failed connect() throws; every attempt throws its own object
ConnectError(message) ==
  [class |-> "Error", message |-> message, thrownAt |-> <<hostIndex, attempt>>]

\* errors.ts ConnectionError
ConnectionError(message, host, port) ==
  [class |-> "ConnectionError", message |-> message, category |-> "connection",
   retryable |-> TRUE, exitCode |-> 2, host |-> host, port |-> port]

RECURSIVE join(_, _)
join(list, sep) ==
  IF list = <<>> THEN <<>>
  ELSE IF Len(list) = 1 THEN list[1]
  ELSE list[1] \o sep \o join(Tail(list), sep)

\* `${host}:${options.port} attempt ${attempt + 1}: ${msg}`
AttemptLabel(err) ==
  <<hosts[hostIndex], ":", ToString(options.port), " attempt ", ToString(attempt + 1), ": ">>
    \o err.message

\* the error names the host tried last
ExhaustedError_LastHost(all) ==
  ConnectionError(<<"Failed to connect after ", ToString(Len(all)), " attempts:\n  ">>
                    \o join(all, <<"\n  ">>),
                  hosts[Len(hosts)], options.port)

ExhaustedError(all) ==
  ConnectionError(<<"Failed to connect after ", ToString(Len(all)), " attempts:\n  ">>
                    \o join(all, <<"\n  ">>),
                  options.host, options.port)

ConnInit ==
  /\ options \in
       {[host |-> "localhost", port |-> 9222, retries |-> r, retryDelayMs |-> d, fallbackHosts |-> f] :
          r \in RetriesChoices,
          d \in {Undefined} \cup {JNum(k) : k \in DelayChoices},
          f \in SeqsUpTo(HostNames, MaxHosts - 1)}
  /\ hostIndex = 1
  /\ attempt = 0
  /\ delay = 0
  /\ attempts = <<>>
  /\ pc = "idle"
  /\ outcome = [kind |-> "none"]
  /\ events = <<>>

TryEvent(h, a) == [e |-> "try", host |-> h, n |-> a + 1]

FailEvent(err) ==
  [e |-> "fail", host |-> hostIndex, n |-> attempt + 1, class |-> classifyConnectError(err), error |-> err]

\* the inner loop is not left: the same host is tried again at once
LeaveHost_Continue(err) ==
  /\ attempt' = attempt + 1
  /\ pc' = "connect"
  /\ events' = events \o <<FailEvent(err), TryEvent(hostIndex, attempt + 1)>>
  /\ UNCHANGED <<hostIndex, delay, outcome>>

\* the inner loop is left (break, or attempt > retries): the outer loop takes
\* the next host, or the function throws the ConnectionError
LeaveHost(err) ==
  LET all == Append(attempts, AttemptLabel(err)) IN
  IF hostIndex < Len(hosts)
  THEN /\ hostIndex' = hostIndex + 1
       /\ attempt' = 0
       /\ delay' = initialDelay
       /\ pc' = "connect"
       /\ outcome' = outcome
       /\ events' = events \o <<FailEvent(err), TryEvent(hostIndex + 1, 0)>>
  ELSE /\ pc' = "threw"
       /\ outcome' = [kind |-> "error", error |-> ExhaustedError(all)]
       /\ events' = Append(events, FailEvent(err))
       /\ UNCHANGED <<hostIndex, attempt, delay>>

\* connectWithResilience is called: up to the first await connection.connect()
Call ==
  /\ pc = "idle"
  /\ IF 0 <= retries
     THEN /\ hostIndex' = 1
          /\ attempt' = 0
          /\ delay' = initialDelay
          /\ pc' = "connect"
          /\ events' = Append(events, TryEvent(1, 0))
          /\ outcome' = outcome
     ELSE \* attempt <= retries is false at once for every host
          /\ hostIndex' = Len(hosts)
          /\ attempt' = 0
          /\ delay' = initialDelay
          /\ pc' = "threw"
          /\ events' = events
          /\ outcome' = [kind |-> "error", error |-> ExhaustedError(attempts)]
  /\ UNCHANGED <<options, attempts>>
  /\ UNCHANGED outsideConn

\* a successful connect() on a host that is not the last is followed by an
\* attempt on the next host
ConnectSucceeds_TriesNextHost ==
  /\ pc = "connect"
  /\ IF hostIndex < Len(hosts)
     THEN /\ hostIndex' = hostIndex + 1
          /\ attempt' = 0
          /\ pc' = "connect"
          /\ outcome' = outcome
          /\ events' = events \o <<[e |-> "ok", host |-> hostIndex, n |-> attempt + 1], TryEvent(hostIndex + 1, 0)>>
     ELSE /\ pc' = "returned"
          /\ outcome' = [kind |-> "connection", host |-> hosts[hostIndex], port |-> options.port]
          /\ events' = Append(events, [e |-> "ok", host |-> hostIndex, n |-> attempt + 1])
          /\ UNCHANGED <<hostIndex, attempt>>
  /\ UNCHANGED <<options, delay, attempts>>
  /\ UNCHANGED outsideConn

\* connect() resolves: return connection
ConnectSucceeds ==
  /\ pc = "connect"
  /\ pc' = "returned"
  /\ outcome' = [kind |-> "connection", host |-> hosts[hostIndex], port |-> options.port]
  /\ events' = Append(events, [e |-> "ok", host |-> hostIndex, n |-> attempt + 1])
  /\ UNCHANGED <<options, hostIndex, attempt, delay, attempts>>
  /\ UNCHANGED outsideConn

\* the fatal error is wrapped in a ConnectionError
ConnectFailsFatal_Wrapped(message) ==
  /\ pc = "connect"
  /\ LET err == ConnectError(message) IN
     /\ classifyConnectError(err) = "fatal"
     /\ attempts' = Append(attempts, AttemptLabel(err))
     /\ pc' = "threw"
     /\ outcome' = [kind |-> "error", error |-> ExhaustedError(Append(attempts, AttemptLabel(err)))]
     /\ events' = Append(events, FailEvent(err))
  /\ UNCHANGED <<options, hostIndex, attempt, delay>>
  /\ UNCHANGED outsideConn

\* connect() rejects with an error classified fatal: throw err
ConnectFailsFatal(message) ==
  /\ pc = "connect"
  /\ LET err == ConnectError(message) IN
     /\ classifyConnectError(err) = "fatal"
     /\ attempts' = Append(attempts, AttemptLabel(err))
     /\ pc' = "threw"
     /\ outcome' = [kind |-> "error", error |-> err]
     /\ events' = Append(events, FailEvent(err))
  /\ UNCHANGED <<options, hostIndex, attempt, delay>>
  /\ UNCHANGED outsideConn

\* connect() rejects with an error classified host-skip: break
ConnectFailsHostSkip(message) ==
  /\ pc = "connect"
  /\ LET err == ConnectError(message) IN
     /\ classifyConnectError(err) = "host-skip"
     /\ attempts' = Append(attempts, AttemptLabel(err))
     /\ LeaveHost(err)
  /\ UNCHANGED options
  /\ UNCHANGED outsideConn

\* one retry too many: the sleep is taken after the last attempt as well
ConnectFailsTransient_OneMore(message) ==
  /\ pc = "connect"
  /\ LET err == ConnectError(message) IN
     /\ classifyConnectError(err) = "transient"
     /\ attempts' = Append(attempts, AttemptLabel(err))
     /\ IF attempt <= retries
        THEN /\ pc' = "sleep"
             /\ events' = events \o <<FailEvent(err), [e |-> "sleep", host |-> hostIndex, ms |-> delay]>>
             /\ UNCHANGED <<hostIndex, attempt, delay, outcome>>
        ELSE LeaveHost(err)
  /\ UNCHANGED options
  /\ UNCHANGED outsideConn

\* connect() rejects with an error classified transient: sleep, unless this
\* was the last attempt on the host
ConnectFailsTransient(message) ==
  /\ pc = "connect"
  /\ LET err == ConnectError(message) IN
     /\ classifyConnectError(err) = "transient"
     /\ attempts' = Append(attempts, AttemptLabel(err))
     /\ IF attempt < retries
        THEN /\ pc' = "sleep"
             /\ events' = events \o <<FailEvent(err), [e |-> "sleep", host |-> hostIndex, ms |-> delay]>>
             /\ UNCHANGED <<hostIndex, attempt, delay, outcome>>
        ELSE LeaveHost(err)
  /\ UNCHANGED options
  /\ UNCHANGED outsideConn

\* the delay is not multiplied
SleepEnds_NoBackoff ==
  /\ pc = "sleep"
  /\ delay' = delay
  /\ attempt' = attempt + 1
  /\ pc' = "connect"
  /\ events' = Append(events, TryEvent(hostIndex, attempt + 1))
  /\ UNCHANGED <<options, hostIndex, attempts, outcome>>
  /\ UNCHANGED outsideConn

\* the sleep ends: delay *= backoffFactor, attempt++, next connect()
SleepEnds ==
  /\ pc = "sleep"
  /\ delay' = delay * DEFAULTS.backoffFactor
  /\ attempt' = attempt + 1
  /\ pc' = "connect"
  /\ events' = Append(events, TryEvent(hostIndex, attempt + 1))
  /\ UNCHANGED <<options, hostIndex, attempts, outcome>>
  /\ UNCHANGED outsideConn

ConnSpecInit == SessionConstructed /\ protocol = "jsonrpc" /\ ConnInit /\ NreplListening /\ RpcIdle /\ ReplIdle /\ RestIdle

ConnNext ==
  \/ Call
  \/ ConnectSucceeds
  \/ \E message \in ConnectMessages : ConnectFailsFatal(message)
  \/ \E message \in ConnectMessages : ConnectFailsHostSkip(message)
  \/ \E message \in ConnectMessages : ConnectFailsTransient(message)
  \/ SleepEnds

ConnSpec == ConnSpecInit /\ [][ConnNext]_vars

\* every await of the procedure (a connect attempt, a sleep) ends
ConnFairSpec == ConnSpec /\ WF_vars(ConnNext)

(***************************************************************************)
(* Bencode codec (npm package bencode, called from nrepl/server.ts).  Byte  *)
(* buffers are sequences of one-character strings.                         *)
(***************************************************************************)
\* decoded values: byte strings (Buffer), integers, lists and dictionaries;
\* a dictionary is a JavaScript object, an ordered list of <<key, value>>
BBuf(bytes) == [t |-> "buffer", v |-> bytes]
BInt(n) == [t |-> "number", v |-> n]
BList(items) == [t |-> "array", v |-> items]
BDict(entries) == [t |-> "object", v |-> entries]

\* the characters of keys in byte order, to sort the keys of a dictionary
ByteOrder == <<"+", "-", ".", "0", "1", "2", "3", "4", "5", "6", "7", "8", "9", ":", "_", "a", "b", "c", "d", "e", "f", "g", "h", "i", "j", "k", "l", "m", "n", "o", "p", "q", "r", "s", "t", "u", "v", "w", "x", "y", "z">>

ByteRank(ch) == CHOOSE i \in 1..Len(ByteOrder) : ByteOrder[i] = ch

\* a < b for byte strings
RECURSIVE BytesLess(_, _)
BytesLess(a, b) ==
  IF b = <<>> THEN FALSE
  ELSE IF a = <<>> THEN TRUE
  ELSE IF a[1] # b[1] THEN ByteRank(a[1]) < ByteRank(b[1])
  ELSE BytesLess(Tail(a), Tail(b))

\* obj[key] = value on a JavaScript object: a key already present keeps its place
SetEntry(entries, key, value) ==
  IF \E i \in 1..Len(entries) : entries[i][1] = key
  THEN [i \in 1..Len(entries) |-> IF entries[i][1] = key THEN <<key, value>> ELSE entries[i]]
  ELSE Append(entries, <<key, value>>)

\* Object.keys(data).sort(), as entries
RECURSIVE SortEntries(_)
SortEntries(entries) ==
  IF entries = <<>> THEN <<>>
  ELSE LET m == CHOOSE i \in 1..Len(entries) :
                  \A j \in 1..Len(entries) : j # i => BytesLess(entries[i][1], entries[j][1])
       IN <<entries[m]>> \o SortEntries(SelectSeq(entries, LAMBDA en : en # entries[m]))

\* bencode.encode: strings and buffers are length-prefixed, integers are
\* i<digits>e, lists l...e, dictionaries d...e with their keys sorted and
\* entries whose value is null or undefined left out
RECURSIVE BencodeEncode(_)
BencodeEncode(value) ==
  LET RECURSIVE EncodeAll(_)
      EncodeAll(items) ==
        IF items = <<>> THEN <<>> ELSE BencodeEncode(items[1]) \o EncodeAll(Tail(items))
      RECURSIVE EncodeEntries(_)
      EncodeEntries(entries) ==
        IF entries = <<>> THEN <<>>
        ELSE NatDigits(Len(entries[1][1])) \o <<":">> \o entries[1][1]
               \o BencodeEncode(entries[1][2]) \o EncodeEntries(Tail(entries))
  IN CASE value.t \in {"buffer", "string"} -> NatDigits(Len(value.v)) \o <<":">> \o value.v
       [] value.t = "number" -> <<"i">> \o IntDigits(value.v) \o <<"e">>
       [] value.t = "array" -> <<"l">> \o EncodeAll(value.v) \o <<"e">>
       [] value.t = "object" ->
            <<"d">> \o EncodeEntries(SortEntries(SelectSeq(value.v,
                          LAMBDA en : en[2].t \notin {"undefined", "null"}))) \o <<"e">>
       [] OTHER -> <<>>

\* decode.find: the first index at or after position that holds chr, 0 when
\* there is none (the library throws)
RECURSIVE BencodeFind(_, _, _)
BencodeFind(data, position, chr) ==
  IF position > Len(data) THEN 0
  ELSE IF data[position] = chr THEN position
  ELSE BencodeFind(data, position + 1, chr)

\* getIntFromBuffer(buffer, start, end): [ok, n]; a sign is taken at start
\* only, a dot ends the number, any other byte throws
RECURSIVE GetIntFrom(_, _, _, _, _)
GetIntFrom(data, start, i, end, sum) ==
  IF i >= end THEN [ok |-> TRUE, n |-> sum]
  ELSE IF IsDigit(data[i]) THEN GetIntFrom(data, start, i + 1, end, sum * 10 + DigitValue(data[i]))
  ELSE IF i = start /\ data[i] \in {"+", "-"} THEN GetIntFrom(data, start, i + 1, end, sum)
  ELSE IF data[i] = "." THEN [ok |-> TRUE, n |-> sum]
  ELSE [ok |-> FALSE, n |-> 0]

getIntFromBuffer(data, start, end) ==
  LET r == GetIntFrom(data, start, start, end, 0)
  IN IF r.ok /\ start < end /\ data[start] = "-" THEN [ok |-> TRUE, n |-> 0 - r.n] ELSE r

DecodeThrows == [ok |-> FALSE]

Decoded(value, position) == [ok |-> TRUE, value |-> value, position |-> position]

\* data.slice(from, to) of a buffer, 1-based and inclusive of from, exclusive
\* of to; a range that runs past the end is cut short
BufferSlice(data, from, to) ==
  IF from > Len(data) THEN <<>>
  ELSE SubSeq(data, from, IF to - 1 > Len(data) THEN Len(data) ELSE to - 1)

\* decode.buffer: <length>:<bytes>; the position moves past the declared
\* length even when the data ends earlier
DecodeBuffer(data, position) ==
  LET sep == BencodeFind(data, position, ":")
      length == getIntFromBuffer(data, position, sep)
  IN IF sep = 0 \/ ~length.ok THEN DecodeThrows
     ELSE Decoded(BBuf(BufferSlice(data, sep + 1, sep + 1 + length.n)), sep + 1 + length.n)

\* decode.integer: i<digits>e
DecodeInteger(data, position) ==
  LET end == BencodeFind(data, position, "e")
      number == getIntFromBuffer(data, position + 1, end)
  IN IF end = 0 \/ ~number.ok THEN DecodeThrows
     ELSE Decoded(BInt(number.n), end + 1)

\* decode.next, decode.list and decode.dictionary
RECURSIVE DecodeNext(_, _)
DecodeNext(data, position) ==
  LET RECURSIVE DecodeList(_, _)
      DecodeList(pos, items) ==
        IF pos <= Len(data) /\ data[pos] = "e" THEN Decoded(BList(items), pos + 1)
        ELSE LET item == DecodeNext(data, pos)
             IN IF item.ok THEN DecodeList(item.position, Append(items, item.value))
                ELSE DecodeThrows
      RECURSIVE DecodeDictionary(_, _)
      DecodeDictionary(pos, entries) ==
        IF pos <= Len(data) /\ data[pos] = "e" THEN Decoded(BDict(entries), pos + 1)
        ELSE LET key == DecodeBuffer(data, pos)
             IN IF ~key.ok THEN DecodeThrows
                ELSE LET val == DecodeNext(data, key.position)
                     IN IF val.ok
                        THEN DecodeDictionary(val.position, SetEntry(entries, key.value.v, val.value))
                        ELSE DecodeThrows
  IN IF position <= Len(data) /\ data[position] = "d" THEN DecodeDictionary(position + 1, <<>>)
     ELSE IF position <= Len(data) /\ data[position] = "l" THEN DecodeList(position + 1, <<>>)
     ELSE IF position <= Len(data) /\ data[position] = "i" THEN DecodeInteger(data, position)
     ELSE DecodeBuffer(data, position)

\* bencode.decode(buffer): the first value in the buffer; bytes after it are
\* ignored
BencodeDecode(data) == DecodeNext(data, 1)

(***************************************************************************)
(* nREPL server (nrepl/server.ts) and its op handlers (nrepl/ops.ts)       *)
(***************************************************************************)
\* what crypto.randomUUID can return
UuidPool == {<<"u", DigitChars[i + 1]>> : i \in 1..MaxMessages}

\* msg[key] of a message object, undefined when the key is absent
MsgGet(msg, key) ==
  IF \E i \in 1..Len(msg) : msg[i][1] = key
  THEN msg[CHOOSE i \in 1..Len(msg) : msg[i][1] = key][2]
  ELSE Undefined

\* Object.entries(decoded): the entries of a dictionary; a list or a buffer
\* has its indices as keys, a number has none
ObjectEntries(value) ==
  CASE value.t = "object" -> value.v
    [] value.t = "array" -> [i \in 1..Len(value.v) |-> <<NatDigits(i - 1), value.v[i]>>]
    [] value.t = "buffer" -> [i \in 1..Len(value.v) |-> <<NatDigits(i - 1), BInt(ByteRank(value.v[i]))>>]
    [] OTHER -> <<>>

\* the data handler's conversion: top-level Buffer values become strings
ToNreplMessage(decoded) ==
  LET entries == ObjectEntries(decoded)
  IN [i \in 1..Len(entries) |->
        <<entries[i][1],
          IF entries[i][2].t = "buffer" THEN JStr(entries[i][2].v) ELSE entries[i][2]>>]

\* bytes that do not decode yet are thrown away instead of kept
RECURSIVE DecodeLoop_DropsIncomplete(_, _)
DecodeLoop_DropsIncomplete(buf, msgs) ==
  IF Len(buf) = 0 THEN [buffer |-> buf, msgs |-> msgs]
  ELSE LET decoded == BencodeDecode(buf)
       IN IF ~decoded.ok THEN [buffer |-> <<>>, msgs |-> msgs]
          ELSE LET consumed == Len(BencodeEncode(decoded.value))
               IN DecodeLoop_DropsIncomplete(SubSeq(buf, consumed + 1, Len(buf)),
                                             Append(msgs, ToNreplMessage(decoded.value)))

\* a byte at the front that begins no value is skipped and the loop goes on
RECURSIVE DecodeLoop_SkipsJunk(_, _)
DecodeLoop_SkipsJunk(buf, msgs) ==
  IF Len(buf) = 0 THEN [buffer |-> buf, msgs |-> msgs]
  ELSE LET decoded == BencodeDecode(buf)
       IN IF ~decoded.ok /\ buf[1] = "x" THEN DecodeLoop_SkipsJunk(Tail(buf), msgs)
          ELSE IF ~decoded.ok THEN [buffer |-> buf, msgs |-> msgs]
          ELSE LET consumed == Len(BencodeEncode(decoded.value))
               IN DecodeLoop_SkipsJunk(SubSeq(buf, consumed + 1, Len(buf)),
                                       Append(msgs, ToNreplMessage(decoded.value)))

\* the data handler's loop: decode a value from the front of the buffer,
\* drop as many bytes as the value re-encodes to, until the buffer is empty
\* or decode throws
RECURSIVE DecodeLoop(_, _)
DecodeLoop(buf, msgs) ==
  IF Len(buf) = 0 THEN [buffer |-> buf, msgs |-> msgs]
  ELSE LET decoded == BencodeDecode(buf)
       IN IF ~decoded.ok THEN [buffer |-> buf, msgs |-> msgs]
          ELSE LET consumed == Len(BencodeEncode(decoded.value))
               IN DecodeLoop(SubSeq(buf, consumed + 1, Len(buf)),
                             Append(msgs, ToNreplMessage(decoded.value)))

\* the keys of the ops table
OpNames == {<<"c", "l", "o", "n", "e">>, <<"c", "l", "o", "s", "e">>, <<"d", "e", "s", "c", "r", "i", "b", "e">>, <<"e", "v", "a", "l">>}

\* the property key a value is turned into by ops[op]
PropertyKey(v) ==
  CASE v.t = "string" -> v.v
    [] v.t = "number" -> IntDigits(v.v)
    [] v.t = "undefined" -> <<"u", "n", "d", "e", "f", "i", "n", "e", "d">>
    [] OTHER -> <<"[", v.t, "]">>

\* ops[op]: an own key of the table, or what the object literal inherits
OpLookup(op) ==
  LET key == PropertyKey(op)
  IN IF key \in OpNames THEN [kind |-> "op", name |-> key]
     ELSE [kind |-> ObjectPrototypeMember(key), name |-> key]

StatusOf(words) == BList([i \in 1..Len(words) |-> JStr(words[i])])

\* { id, session, ...response }
Stamp(id, session, response) ==
  LET RECURSIVE Spread(_, _)
      Spread(entries, more) ==
        IF more = <<>> THEN entries
        ELSE Spread(SetEntry(entries, more[1][1], more[1][2]), Tail(more))
  IN Spread(<<<<<<"i", "d">>, id>>, <<<<"s", "e", "s", "s", "i", "o", "n">>, session>>>>, response)

\* ops.ts close: the message it yields
CloseResponses == <<<<<<<<"s", "t", "a", "t", "u", "s">>, StatusOf(<<<<"d", "o", "n", "e">>>>)>>>>>>

\* ops.ts clone: the message it yields for the session it created
CloneResponses(sid) ==
  <<<<<<<<"n", "e", "w", "-", "s", "e", "s", "s", "i", "o", "n">>, JStr(sid)>>, <<<<"s", "t", "a", "t", "u", "s">>, StatusOf(<<<<"d", "o", "n", "e">>>>)>>>>>>

\* ops.ts describe
DescribeResponses ==
  <<<<<<<<"o", "p", "s">>, BDict(<<<<<<"c", "l", "o", "n", "e">>, BDict(<<>>)>>, <<<<"c", "l", "o", "s", "e">>, BDict(<<>>)>>,
                         <<<<"d", "e", "s", "c", "r", "i", "b", "e">>, BDict(<<>>)>>, <<<<"e", "v", "a", "l">>, BDict(<<>>)>>>>)>>,
      <<<<"v", "e", "r", "s", "i", "o", "n", "s">>, BDict(<<<<<<"c", "j", "i", "g", "-", "n", "r", "e", "p", "l">>, JStr(<<"0", ".", "1", ".", "0">>)>>>>)>>,
      <<<<"s", "t", "a", "t", "u", "s">>, StatusOf(<<<<"d", "o", "n", "e">>>>)>>>>>>

\* what evaluateCljs resolves to; it never rejects
EvalResults ==
  {[success |-> TRUE, value |-> JNum(3)], [success |-> FALSE, error |-> JStr(<<"b", "o", "o", "m">>)]}

\* a failed evaluation is answered with err alone
EvalResponses_NoDoneOnError(result) ==
  IF result.success
  THEN <<<<<<<<"v", "a", "l", "u", "e">>, JStr(IntDigits(result.value.v))>>, <<<<"n", "s">>, JStr(<<"c", "l", "j", "s", ".", "u", "s", "e", "r">>)>>>>,
         <<<<<<"s", "t", "a", "t", "u", "s">>, StatusOf(<<<<"d", "o", "n", "e">>>>)>>>>>>
  ELSE <<<<<<<<"e", "r", "r">>, result.error>>>>>>

\* ops.ts evalOp after the await: value and ns, or err, then done
EvalResponses(result) ==
  <<IF result.success
    THEN <<<<<<"v", "a", "l", "u", "e">>, JStr(IF result.value.t = "number" THEN IntDigits(result.value.v)
                                ELSE JsString(result.value))>>,
           <<<<"n", "s">>, JStr(<<"c", "l", "j", "s", ".", "u", "s", "e", "r">>)>>>>
    ELSE <<<<<<"e", "r", "r">>, Coalesce(result.error, JStr(<<"U", "n", "k", "n", "o", "w", "n", " ", "e", "r", "r", "o", "r">>))>>>>,
    <<<<<<"s", "t", "a", "t", "u", "s">>, StatusOf(<<<<"d", "o", "n", "e">>>>)>>>>>>

\* for await over the string Object.prototype.toString returned: one
\* response per character, spread as { 0: character }
ToStringResponses ==
  LET text == <<"[", "o", "b", "j", "e", "c", "t", " ", "U", "n", "d", "e", "f", "i", "n", "e", "d", "]">>
  IN [i \in 1..Len(text) |-> <<<<<<"0">>, JStr(<<text[i]>>)>>>>]

\* handleMessage's unknown-op message
UnknownOpMessage(msg) ==
  Stamp(MsgGet(msg, <<"i", "d">>), MsgGet(msg, <<"s", "e", "s", "s", "i", "o", "n">>),
        <<<<<<"s", "t", "a", "t", "u", "s">>, StatusOf(<<<<"e", "r", "r", "o", "r">>, <<"u", "n", "k", "n", "o", "w", "n", "-", "o", "p">>, <<"d", "o", "n", "e">>>>)>>>>)

\* the reply of the data handler's catch when handleMessage rejects
HandlerFailureMessage(msg) ==
  <<<<<<"i", "d">>, MsgGet(msg, <<"i", "d">>)>>,
    <<<<"s", "t", "a", "t", "u", "s">>, StatusOf(<<<<"e", "r", "r", "o", "r">>, <<"d", "o", "n", "e">>>>)>>,
    <<<<"e", "r", "r">>, JStr(<<"T", "y", "p", "e", "E", "r", "r", "o", "r">>)>>>>

\* JavaScript truthiness of a message field
IsTruthy(v) ==
  CASE v.t \in {"undefined", "null"} -> FALSE
    [] v.t = "string" -> v.v # <<>>
    [] v.t = "number" -> v.v # 0
    [] OTHER -> TRUE

\* newSession: sessions.set(session.id, session) for the id randomUUID gave
newSession(table, id) == table \cup {id}

\* the whole table is emptied
CloseSession_Clears(table, sid) == {}

\* ops.ts close: if (sid) ctx.sessions.delete(sid); the keys of the Map are
\* strings, so another value deletes nothing
CloseSession(table, sid) ==
  IF IsTruthy(sid) /\ sid.t = "string" THEN table \ {sid.v} ELSE table

\* what handleMessage does for one decoded message up to its first
\* suspension.  st carries the session table, the ids issued, the requests
\* handled, the evaluations awaited, and the messages sent: sync by
\* handleMessage itself, async once the handlers' generators are resumed.
\* picks are the ids randomUUID returns to the clone ops.
HandleOne(st, c, msg, picks) ==
  LET handler == OpLookup(MsgGet(msg, <<"o", "p">>))
      n == Len(st.requests) + 1
      id == MsgGet(msg, <<"i", "d">>)
      session == MsgGet(msg, <<"s", "e", "s", "s", "i", "o", "n">>)
      request == [conn |-> c, msg |-> msg, handler |-> handler, created |-> <<>>]
      stamped(responses) ==
        [i \in 1..Len(responses) |-> [conn |-> c, req |-> n, msg |-> Stamp(id, session, responses[i])]]
  IN CASE handler.kind = "undefined" ->
            [st EXCEPT !.requests = Append(@, request),
                       !.sync = Append(@, [conn |-> c, req |-> n, msg |-> UnknownOpMessage(msg)])]
       [] handler.kind = "op" /\ handler.name = <<"c", "l", "o", "n", "e">> ->
            [st EXCEPT !.requests = Append(@, [request EXCEPT !.created = picks[1]]),
                       !.sessions = newSession(@, picks[1]),
                       !.uuids = @ \cup {picks[1]},
                       !.async = @ \o stamped(CloneResponses(picks[1]))]
       [] handler.kind = "op" /\ handler.name = <<"c", "l", "o", "s", "e">> ->
            [st EXCEPT !.requests = Append(@, request),
                       !.sessions = CloseSession(@, session),
                       !.async = @ \o stamped(CloseResponses)]
       [] handler.kind = "op" /\ handler.name = <<"d", "e", "s", "c", "r", "i", "b", "e">> ->
            [st EXCEPT !.requests = Append(@, request),
                       !.async = @ \o stamped(DescribeResponses)]
       [] handler.kind = "op" /\ handler.name = <<"e", "v", "a", "l">> ->
            [st EXCEPT !.requests = Append(@, request),
                       !.evaluating = @ \cup {n}]
       [] handler.kind = "toString" ->
            [st EXCEPT !.requests = Append(@, request),
                       !.async = @ \o stamped(ToStringResponses)]
       [] OTHER ->
            \* Object(msg) is not async iterable, or the inherited member is
            \* not callable or throws: handleMessage rejects
            [st EXCEPT !.requests = Append(@, request),
                       !.async = Append(@, [conn |-> c, req |-> n, msg |-> HandlerFailureMessage(msg)])]

IsClone(msg) == OpLookup(MsgGet(msg, <<"o", "p">>)) = [kind |-> "op", name |-> <<"c", "l", "o", "n", "e">>]

RECURSIVE HandleAll(_, _, _, _)
HandleAll(st, c, msgs, picks) ==
  IF msgs = <<>> THEN st
  ELSE HandleAll(HandleOne(st, c, msgs[1], picks), c, Tail(msgs),
                 IF IsClone(msgs[1]) THEN Tail(picks) ELSE picks)

\* send: bencode.encode(msg), socket.write(encoded)
Send(out) == [conn |-> out.conn, req |-> out.req, data |-> BencodeEncode(BDict(out.msg))]

\* n distinct ids not issued before
FreshPicks(n) ==
  {p \in SeqsUpTo(UuidPool \ uuids, n) :
     Len(p) = n /\ \A i, j \in 1..n : i # j => p[i] # p[j]}

\* messages a client writes, bencoded
ClientMessages ==
  {<<"d", "2", ":", "i", "d", "1", ":", "1", "2", ":", "o", "p", "5", ":", "c", "l", "o", "n", "e", "e">>,
   <<"d", "2", ":", "i", "d", "1", ":", "2", "2", ":", "o", "p", "5", ":", "c", "l", "o", "s", "e", "7", ":", "s", "e", "s", "s", "i", "o", "n", "2", ":", "u", "1", "e">>,
   <<"d", "2", ":", "o", "p", "5", ":", "c", "l", "o", "s", "e", "e">>,
   <<"d", "2", ":", "o", "p", "8", ":", "d", "e", "s", "c", "r", "i", "b", "e", "e">>,
   <<"d", "4", ":", "c", "o", "d", "e", "1", ":", "x", "2", ":", "i", "d", "1", ":", "3", "2", ":", "o", "p", "4", ":", "e", "v", "a", "l", "7", ":", "s", "e", "s", "s", "i", "o", "n", "2", ":", "u", "1", "e">>,
   <<"d", "2", ":", "i", "d", "1", ":", "4", "2", ":", "o", "p", "3", ":", "f", "o", "o", "e">>,
   <<"d", "2", ":", "o", "p", "1", "1", ":", "c", "o", "n", "s", "t", "r", "u", "c", "t", "o", "r", "2", ":", "i", "d", "1", ":", "6", "7", ":", "s", "e", "s", "s", "i", "o", "n", "2", ":", "u", "1", "e">>,
   <<"d", "7", ":", "s", "e", "s", "s", "i", "o", "n", "2", ":", "u", "1", "e">>}

\* a client writes a message to its socket, at most max writes in all
ClientWritesUpTo(c, m, max) ==
  /\ Len(written[1]) + Len(written[2]) < max
  /\ wire' = [wire EXCEPT ![c] = @ \o m]
  /\ written' = [written EXCEPT ![c] = Append(@, m)]
  /\ UNCHANGED <<sessions, uuids, buffer, chunks, requests, evaluating, socketOut>>
  /\ UNCHANGED outsideNrepl

ClientWrites(c, m) == ClientWritesUpTo(c, m, MaxMessages)

\* socket.on('data'): the next k bytes of connection c arrive as one chunk.
\* The handler runs its loop, and the handlers it started run until they are
\* done or await the evaluation.
Data(c, k) ==
  /\ k \in 1..Len(wire[c])
  /\ chunks[c] < MaxChunks
  /\ LET loop == DecodeLoop(buffer[c] \o SubSeq(wire[c], 1, k), <<>>)
         nClones == Cardinality({i \in 1..Len(loop.msgs) : IsClone(loop.msgs[i])})
     IN \E picks \in FreshPicks(nClones) :
          LET st == HandleAll([sessions |-> sessions, uuids |-> uuids, requests |-> requests,
                               evaluating |-> evaluating, sync |-> <<>>, async |-> <<>>],
                              c, loop.msgs, picks)
              outs == st.sync \o st.async
          IN /\ buffer' = [buffer EXCEPT ![c] = loop.buffer]
             /\ sessions' = st.sessions
             /\ uuids' = st.uuids
             /\ requests' = st.requests
             /\ evaluating' = st.evaluating
             /\ socketOut' = socketOut \o [i \in 1..Len(outs) |-> Send(outs[i])]
  /\ wire' = [wire EXCEPT ![c] = SubSeq(@, k + 1, Len(@))]
  /\ chunks' = [chunks EXCEPT ![c] = @ + 1]
  /\ UNCHANGED written
  /\ UNCHANGED outsideNrepl

\* evaluateCljs resolves for request n: evalOp yields its messages and
\* handleMessage sends them
EvalSettles(n, result) ==
  /\ n \in evaluating
  /\ evaluating' = evaluating \ {n}
  /\ LET msg == requests[n].msg
         responses == EvalResponses(result)
     IN socketOut' = socketOut \o
          [i \in 1..Len(responses) |->
             Send([conn |-> requests[n].conn, req |-> n,
                   msg |-> Stamp(MsgGet(msg, <<"i", "d">>), MsgGet(msg, <<"s", "e", "s", "s", "i", "o", "n">>), responses[i])])]
  /\ UNCHANGED <<sessions, uuids, buffer, wire, written, chunks, requests>>
  /\ UNCHANGED outsideNrepl

NreplInit == SessionConstructed /\ protocol = "jsonrpc" /\ ConnIdle /\ NreplListening /\ RpcIdle /\ ReplIdle /\ RestIdle

\* clients on both sockets; everything a client has written arrives as one
\* chunk, one message or several
NreplNext ==
  \/ \E c \in Conns, m \in ClientMessages : ClientWrites(c, m)
  \/ \E c \in Conns : Data(c, Len(wire[c]))
  \/ \E n \in evaluating, result \in EvalResults : EvalSettles(n, result)

NreplSpec == NreplInit /\ [][NreplNext]_vars

\* messages of the client whose byte stream is cut into chunks anywhere: keys
\* in sorted order, and keys out of order with an integer value
FramingMessages == {<<"d", "2", ":", "o", "p", "5", ":", "c", "l", "o", "n", "e", "e">>, <<"d", "2", ":", "o", "p", "1", ":", "x", "1", ":", "a", "i", "5", "e", "e">>}

\* one client; the network delivers what it has written in chunks of any
\* length
FramingNext ==
  \/ \E m \in FramingMessages : ClientWrites(1, m)
  \/ \E k \in 1..Len(wire[1]) : Data(1, k)

FramingSpec == NreplInit /\ [][FramingNext]_vars

(***************************************************************************)
(* JSON text (JSON.stringify and JSON.parse of the runtime), as the         *)
(* JSON-RPC adapter calls them.  A document is a character sequence; an     *)
(* object value is the sequence of its <<key, value>> members in insertion  *)
(* order.  Numbers are integers.                                            *)
(***************************************************************************)
JBool(b) == [t |-> "boolean", v |-> b]

JMembers(entries) == [t |-> "object", v |-> entries]

\* string escapes without the backslash
JsonQuote_NoEscape(s) == <<"\"">> \o s \o <<"\"">>

RECURSIVE JsonEscape(_)
JsonEscape(s) ==
  IF s = <<>> THEN <<>>
  ELSE (CASE Head(s) = "\"" -> <<"\\", "\"">>
          [] Head(s) = "\\" -> <<"\\", "\\">>
          [] Head(s) = "\n" -> <<"\\", "n">>
          [] Head(s) = "\t" -> <<"\\", "t">>
          [] OTHER -> <<Head(s)>>) \o JsonEscape(Tail(s))

\* a string as JSON.stringify writes it
JsonQuote(s) == <<"\"">> \o JsonEscape(s) \o <<"\"">>

\* JSON.stringify(value); a member whose value is undefined is left out, an
\* undefined array element is written as null
RECURSIVE JsonStringify(_)
JsonStringify(value) ==
  LET RECURSIVE Elements(_, _)
      Elements(a, i) ==
        IF i > Len(a) THEN <<>>
        ELSE (IF i > 1 THEN <<",">> ELSE <<>>)
             \o JsonStringify(IF a[i] = Undefined THEN JNull ELSE a[i])
             \o Elements(a, i + 1)
      RECURSIVE Members(_, _, _)
      Members(m, i, first) ==
        IF i > Len(m) THEN <<>>
        ELSE IF m[i][2] = Undefined THEN Members(m, i + 1, first)
        ELSE (IF first THEN <<>> ELSE <<",">>)
             \o JsonQuote(m[i][1]) \o <<":">> \o JsonStringify(m[i][2])
             \o Members(m, i + 1, FALSE)
  IN CASE value.t = "null" -> <<"n", "u", "l", "l">>
       [] value.t = "boolean" -> IF value.v THEN <<"t", "r", "u", "e">> ELSE <<"f", "a", "l", "s", "e">>
       [] value.t = "number" -> IntDigits(value.v)
       [] value.t = "string" -> JsonQuote(value.v)
       [] value.t = "array" -> <<"[">> \o Elements(value.v, 1) \o <<"]">>
       [] value.t = "object" -> <<"{">> \o Members(value.v, 1, TRUE) \o <<"}">>

JsonSyntaxError == [ok |-> FALSE]

JsonRead(value, next) == [ok |-> TRUE, value |-> value, next |-> next]

JsonWhitespace == {" ", "\t", "\n", "\r"}

RECURSIVE JsonSkip(_, _)
JsonSkip(text, i) ==
  IF i <= Len(text) /\ text[i] \in JsonWhitespace THEN JsonSkip(text, i + 1) ELSE i

JsonAt(text, i, word) ==
  i + Len(word) - 1 <= Len(text) /\ SubSeq(text, i, i + Len(word) - 1) = word

\* the characters of a string literal whose opening quote is before i
RECURSIVE JsonString(_, _, _)
JsonString(text, i, acc) ==
  IF i > Len(text) THEN JsonSyntaxError
  ELSE IF text[i] = "\"" THEN JsonRead(acc, i + 1)
  ELSE IF text[i] \in {"\n", "\t", "\r"} THEN JsonSyntaxError
  ELSE IF text[i] # "\\" THEN JsonString(text, i + 1, Append(acc, text[i]))
  ELSE IF i + 1 > Len(text) THEN JsonSyntaxError
  ELSE CASE text[i + 1] \in {"\"", "\\", "/"} -> JsonString(text, i + 2, Append(acc, text[i + 1]))
         [] text[i + 1] = "n" -> JsonString(text, i + 2, Append(acc, "\n"))
         [] text[i + 1] = "t" -> JsonString(text, i + 2, Append(acc, "\t"))
         [] OTHER -> JsonSyntaxError

RECURSIVE JsonDigits(_, _, _)
JsonDigits(text, i, sum) ==
  IF i <= Len(text) /\ IsDigit(text[i])
  THEN JsonDigits(text, i + 1, sum * 10 + DigitValue(text[i]))
  ELSE JsonRead(sum, i)

\* an integer literal: an optional minus, then 0 or a digit string that
\* does not start with 0
JsonNumber(text, i) ==
  LET neg == text[i] = "-"
      j == IF neg THEN i + 1 ELSE i
  IN IF j > Len(text) \/ ~IsDigit(text[j]) THEN JsonSyntaxError
     ELSE IF text[j] = "0" THEN JsonRead(JNum(0), j + 1)
     ELSE LET n == JsonDigits(text, j, 0)
          IN JsonRead(JNum(IF neg THEN 0 - n.value ELSE n.value), n.next)

RECURSIVE JsonValue(_, _)
JsonValue(text, from) ==
  LET i == JsonSkip(text, from)
      RECURSIVE Elements(_, _)
      Elements(j, acc) ==
        LET e == JsonValue(text, j)
            k == IF e.ok THEN JsonSkip(text, e.next) ELSE 0
        IN IF ~e.ok \/ k > Len(text) THEN JsonSyntaxError
           ELSE IF text[k] = "," THEN Elements(k + 1, Append(acc, e.value))
           ELSE IF text[k] = "]" THEN JsonRead(JArr(Append(acc, e.value)), k + 1)
           ELSE JsonSyntaxError
      RECURSIVE Members(_, _)
      Members(j, acc) ==
        LET q == JsonSkip(text, j)
            key == IF q <= Len(text) /\ text[q] = "\"" THEN JsonString(text, q + 1, <<>>) ELSE JsonSyntaxError
            c == IF key.ok THEN JsonSkip(text, key.next) ELSE 0
            e == IF key.ok /\ c <= Len(text) /\ text[c] = ":" THEN JsonValue(text, c + 1) ELSE JsonSyntaxError
            k == IF e.ok THEN JsonSkip(text, e.next) ELSE 0
        IN IF ~e.ok \/ k > Len(text) THEN JsonSyntaxError
           ELSE IF text[k] = "," THEN Members(k + 1, SetEntry(acc, key.value, e.value))
           ELSE IF text[k] = "}" THEN JsonRead(JMembers(SetEntry(acc, key.value, e.value)), k + 1)
           ELSE JsonSyntaxError
  IN IF i > Len(text) THEN JsonSyntaxError
     ELSE IF text[i] = "n" THEN (IF JsonAt(text, i, <<"n", "u", "l", "l">>) THEN JsonRead(JNull, i + 4) ELSE JsonSyntaxError)
     ELSE IF text[i] = "t" THEN (IF JsonAt(text, i, <<"t", "r", "u", "e">>) THEN JsonRead(JBool(TRUE), i + 4) ELSE JsonSyntaxError)
     ELSE IF text[i] = "f" THEN (IF JsonAt(text, i, <<"f", "a", "l", "s", "e">>) THEN JsonRead(JBool(FALSE), i + 5) ELSE JsonSyntaxError)
     ELSE IF text[i] = "\"" THEN
       LET s == JsonString(text, i + 1, <<>>)
       IN IF s.ok THEN JsonRead(JStr(s.value), s.next) ELSE JsonSyntaxError
     ELSE IF text[i] = "[" THEN
       LET j == JsonSkip(text, i + 1)
       IN IF j <= Len(text) /\ text[j] = "]" THEN JsonRead(JArr(<<>>), j + 1) ELSE Elements(j, <<>>)
     ELSE IF text[i] = "{" THEN
       LET j == JsonSkip(text, i + 1)
       IN IF j <= Len(text) /\ text[j] = "}" THEN JsonRead(JMembers(<<>>), j + 1) ELSE Members(j, <<>>)
     ELSE IF text[i] = "-" \/ IsDigit(text[i]) THEN JsonNumber(text, i)
     ELSE JsonSyntaxError

\* JSON.parse(text): ok is FALSE where it throws a SyntaxError
JsonParse(text) ==
  LET doc == JsonValue(text, 1)
  IN IF doc.ok /\ JsonSkip(text, doc.next) > Len(text)
     THEN [ok |-> TRUE, value |-> doc.value]
     ELSE JsonSyntaxError

\* the characters of a property name, as the name the code writes
RECURSIVE PropertyName(_)
PropertyName(key) == IF key = <<>> THEN "" ELSE Head(key) \o PropertyName(Tail(key))

\* a parsed document as the JavaScript value the code reads: an object is
\* looked up by property name
RECURSIVE FromJson(_)
FromJson(value) ==
  CASE value.t = "array" -> JArr([i \in 1..Len(value.v) |-> FromJson(value.v[i])])
    [] value.t = "object" ->
         JObj([name \in {PropertyName(value.v[i][1]) : i \in 1..Len(value.v)} |->
                 FromJson(value.v[CHOOSE i \in 1..Len(value.v) : PropertyName(value.v[i][1]) = name][2])])
    [] OTHER -> value

(***************************************************************************)
(* JsonRpcProtocol on the characters of its lines                          *)
(* (session/jsonrpc-protocol.ts)                                           *)
(***************************************************************************)
\* the members of a parsed object by property name; the values stay as parsed
Properties(members) ==
  [name \in {PropertyName(members[i][1]) : i \in 1..Len(members)} |->
     members[CHOOSE i \in 1..Len(members) : PropertyName(members[i][1]) = name][2]]

\* the first steps of parse: input.trim(), then JSON.parse in a try block
ReadLine(input) ==
  LET trimmed == trim(input)
      doc == JsonParse(trimmed)
  IN IF trimmed = <<>> THEN BlankLine
     ELSE IF ~doc.ok THEN MalformedLine
     ELSE IF doc.value.t = "object" THEN JsonLine(JObj(Properties(doc.value.v)))
     ELSE JsonLine(doc.value)

\* JsonRpcProtocol.parse(input)
JsonRpcParseInput(input) == JsonRpcParse(ReadLine(input))

\* JsonRpcProtocol.formatResult(request, result): the line it returns
JsonRpcFormatResultLine(request, result) ==
  LET response == JsonRpcFormatResult(request, result)
  IN JsonStringify(JMembers(<< <<<<"j", "s", "o", "n", "r", "p", "c">>, JStr(<<"2", ".", "0">>)>>,
                               <<<<"i", "d">>, response.id>>,
                               <<<<"r", "e", "s", "u", "l", "t">>, response.result>> >>))

\* one member of an input object: its text (empty when the member is left
\* out), its value, and whether parse accepts it
Member(text, value, valid) == [text |-> text, value |-> value, valid |-> valid]

JsonrpcMembers ==
  {Member(<<>>, Undefined, FALSE),
   Member(<<"\"", "j", "s", "o", "n", "r", "p", "c", "\"", ":", "\"", "2", ".", "0", "\"">>, JStr(<<"2", ".", "0">>), TRUE),
   Member(<<"\"", "j", "s", "o", "n", "r", "p", "c", "\"", ":", "\"", "1", ".", "0", "\"">>, JStr(<<"1", ".", "0">>), FALSE),
   Member(<<"\"", "j", "s", "o", "n", "r", "p", "c", "\"", ":", "2">>, JNum(2), FALSE)}

IdMembers ==
  {Member(<<>>, Undefined, TRUE),
   Member(<<"\"", "i", "d", "\"", ":", "1">>, JNum(1), TRUE),
   Member(<<"\"", "i", "d", "\"", ":", "\"", "a", "\"">>, JStr(<<"a">>), TRUE),
   Member(<<"\"", "i", "d", "\"", ":", "n", "u", "l", "l">>, JNull, TRUE),
   Member(<<"\"", "i", "d", "\"", ":", "{", "\"", "k", "\"", ":", "[", "0", "]", "}">>, JMembers(<< <<<<"k">>, JArr(<<JNum(0)>>)>> >>), TRUE)}

MethodMembers ==
  {Member(<<>>, Undefined, FALSE),
   Member(<<"\"", "m", "e", "t", "h", "o", "d", "\"", ":", "\"", "e", "v", "a", "l", "\"">>, JStr(<<"e", "v", "a", "l">>), TRUE),
   Member(<<"\"", "m", "e", "t", "h", "o", "d", "\"", ":", "\"", "\"">>, JStr(<<>>), FALSE),
   Member(<<"\"", "m", "e", "t", "h", "o", "d", "\"", ":", "5">>, JNum(5), FALSE),
   Member(<<"\"", "m", "e", "t", "h", "o", "d", "\"", ":", "n", "u", "l", "l">>, JNull, FALSE)}

ParamsMembers ==
  {Member(<<>>, Undefined, TRUE),
   Member(<<"\"", "p", "a", "r", "a", "m", "s", "\"", ":", "{", "\"", "c", "o", "d", "e", "\"", ":", "\"", "1", "\"", "}">>, JMembers(<< <<<<"c", "o", "d", "e">>, JStr(<<"1">>)>> >>), TRUE),
   Member(<<"\"", "p", "a", "r", "a", "m", "s", "\"", ":", "[", "1", "]">>, JArr(<<JNum(1)>>), FALSE),
   Member(<<"\"", "p", "a", "r", "a", "m", "s", "\"", ":", "n", "u", "l", "l">>, JNull, FALSE),
   Member(<<"\"", "p", "a", "r", "a", "m", "s", "\"", ":", "\"", "x", "\"">>, JStr(<<"x">>), FALSE)}

\* the member texts that are not empty, separated by commas
RECURSIVE MemberList(_)
MemberList(texts) ==
  IF texts = <<>> THEN <<>>
  ELSE IF Head(texts) = <<>> THEN MemberList(Tail(texts))
  ELSE LET rest == MemberList(Tail(texts))
       IN Head(texts) \o (IF rest = <<>> THEN <<>> ELSE <<",">> \o rest)

ObjectInput(pad, jsonrpc, id, method, params) ==
  [kind |-> "object", jsonrpc |-> jsonrpc, id |-> id, method |-> method, params |-> params,
   text |-> pad \o <<"{">> \o MemberList(<<jsonrpc.text, id.text, method.text, params.text>>) \o <<"}">> \o pad]

\* the lines handed to parse
RpcInputs ==
  {[kind |-> "blank", text |-> t] : t \in {<<>>, <<" ">>, <<" ", "\t", " ">>}}
  \cup {[kind |-> "malformed", text |-> t] :
          t \in {<<"n", "o", "t", " ", "j", "s", "o", "n">>, <<"{", "\"", "j", "s", "o", "n", "r", "p", "c", "\"", ":", "\"", "2", ".", "0", "\"">>, <<"{", "\"", "i", "d", "\"", ":", "1", ",", "}">>, <<"{", "m", "e", "t", "h", "o", "d", ":", "\"", "e", "v", "a", "l", "\"", "}">>, <<"0", "1">>}}
  \cup {[kind |-> "not-object", text |-> t] :
          t \in {<<"\"", "h", "e", "l", "l", "o", "\"">>, <<"[", "1", ",", "2", ",", "3", "]">>, <<"n", "u", "l", "l">>, <<"4", "2">>, <<"t", "r", "u", "e">>, <<" ", "[", "{", "\"", "j", "s", "o", "n", "r", "p", "c", "\"", ":", "\"", "2", ".", "0", "\"", "}", "]", " ">>}}
  \cup {ObjectInput(pad, jsonrpc, id, method, params) :
          pad \in {<<>>, <<" ">>}, jsonrpc \in JsonrpcMembers, id \in IdMembers,
          method \in MethodMembers, params \in ParamsMembers}

JsonAtoms ==
  {JNull, JBool(TRUE), JBool(FALSE), JNum(0), JNum(-7), JNum(42),
   JStr(<<>>), JStr(<<"a">>), JStr(<<"s", "a", "y", " ", "\"", "h", "i", "\"">>), JStr(<<"a", "\\", "b">>), JStr(<<"x", "\n", "y">>)}

\* the results handed to formatResult: JSON values, and undefined
JsonValues ==
  JsonAtoms
  \cup {JArr(<<>>), JMembers(<<>>)}
  \cup {JArr(<<a>>) : a \in JsonAtoms}
  \cup {JArr(<<a, JArr(<<JStr(<<"\"">>), a>>)>>) : a \in JsonAtoms}
  \cup {JMembers(<< <<<<"k">>, a>> >>) : a \in JsonAtoms}
  \cup {JMembers(<< <<<<"a", "\"", "b">>, a>>, <<<<"n">>, JMembers(<< <<<<"z">>, JArr(<<a>>)>> >>)>> >>) : a \in JsonAtoms}

RpcResults == JsonValues \cup {Undefined}

\* protocol.parse(rpcInput)
RpcParse ==
  /\ rpcParsed = NotCalled
  /\ rpcParsed' = JsonRpcParseInput(rpcInput.text)
  /\ UNCHANGED <<rpcInput, rpcValue, rpcLine, rpcRead>>
  /\ UNCHANGED outsideRpc

\* protocol.formatResult(request, v) for the request parse returned
RpcFormatResult(v) ==
  /\ rpcParsed.tag = "request"
  /\ rpcLine = NotCalled
  /\ rpcValue' = v
  /\ rpcLine' = [tag |-> "line", text |-> JsonRpcFormatResultLine(rpcParsed, v)]
  /\ UNCHANGED <<rpcInput, rpcParsed, rpcRead>>
  /\ UNCHANGED outsideRpc

\* the client's JSON.parse of the line it received
RpcClientReads ==
  /\ rpcLine # NotCalled
  /\ rpcRead = NotCalled
  /\ rpcRead' = [tag |-> "read", doc |-> JsonParse(rpcLine.text)]
  /\ UNCHANGED <<rpcInput, rpcParsed, rpcValue, rpcLine>>
  /\ UNCHANGED outsideRpc

JsonRpcInit ==
  /\ SessionConstructed /\ protocol = "jsonrpc" /\ ConnIdle /\ NreplListening /\ ReplIdle /\ RestIdle
  /\ rpcInput \in RpcInputs
  /\ rpcParsed = NotCalled
  /\ rpcValue = NotCalled
  /\ rpcLine = NotCalled
  /\ rpcRead = NotCalled

JsonRpcNext ==
  \/ RpcParse
  \/ \E v \in RpcResults : RpcFormatResult(v)
  \/ RpcClientReads

JsonRpcSpec == JsonRpcInit /\ [][JsonRpcNext]_vars

(***************************************************************************)
(* ReplProtocol on its own: the lines handed to parse and handleLocal      *)
(* (session/repl-protocol.ts)                                              *)
(***************************************************************************)
UpperChar(c) ==
  IF \E i \in 1..Len(LowerChars) : LowerChars[i] = c
  THEN UpperChars[CHOOSE i \in 1..Len(LowerChars) : LowerChars[i] = c]
  ELSE c

toUpperCase(s) == [i \in 1..Len(s) |-> UpperChar(s[i])]

\* a command name as it is typed
Typed(name, casing) ==
  CASE casing = "upper" -> toUpperCase(name)
    [] casing = "capital" -> toUpperCase(SubSeq(name, 1, 1)) \o SubSeq(name, 2, Len(name))
    [] OTHER -> name

\* a line, with what it is: blank, bare text, or a dot-command of the local
\* list, of the inject commands, of the other dispatched commands, or of
\* neither table; name is the command name as typed, arg the trimmed rest
ReplInput(kind, text, name, arg) == [kind |-> kind, text |-> text, name |-> name, arg |-> arg]

LocalNames ==
  {<<"h", "e", "l", "p">>, <<"h">>, <<"?">>, <<"w", "a", "t", "c", "h">>, <<"w">>, <<"b", "u", "i", "l", "d">>, <<"b">>, <<"c", "o", "n", "f", "i", "g">>, <<"c", "f", "g">>,
   <<"c", "l", "e", "a", "r">>, <<"c", "l", "s">>, <<"e", "x", "i", "t">>, <<"q", "u", "i", "t">>, <<"q">>, <<"o", "p", "e", "n">>, <<"o">>, <<"g", "o", "t", "o">>}

InjectNames == {<<"i", "n", "j", "e", "c", "t">>, <<"i">>, <<"l", "o", "a", "d">>}

\* the other names of DISPATCH_MAP
DispatchNames == {<<"t", "a", "b", "s">>, <<"t">>, <<"p", "a", "g", "e", "s">>, <<"t", "a", "b">>, <<"s", "e", "l", "e", "c", "t">>, <<"r", "e", "l", "o", "a", "d">>, <<"r">>}

ReplLines ==
  {ReplInput("blank", t, <<>>, <<>>) : t \in {<<>>, <<" ", " ">>, <<"\t">>}}
  \cup {ReplInput("bare", t, <<>>, <<>>) : t \in {<<" ", "1", "+", "1", " ">>, <<"h", "e", "l", "p">>, <<"x", ".", "y">>}}
  \cup {ReplInput("local", <<".">> \o Typed(name, casing), Typed(name, casing), <<>>) :
          name \in LocalNames, casing \in {"lower", "upper"}}
  \cup {ReplInput("local", <<".", "w", "a", "t", "c", "h", " ", "o", "n">>, <<"w", "a", "t", "c", "h">>, <<"o", "n">>),
        ReplInput("local", <<" ", " ", ".", "H", "e", "l", "p", " ", " ">>, <<"H", "e", "l", "p">>, <<>>),
        ReplInput("local", <<".", "O", "p", "e", "n", " ", "h", "t", "t", "p", ":", "/", "/", "x">>, <<"O", "p", "e", "n">>, <<"h", "t", "t", "p", ":", "/", "/", "x">>)}
  \cup {ReplInput("inject", <<".">> \o Typed(name, casing) \o rest[1], Typed(name, casing), rest[2]) :
          name \in InjectNames, casing \in {"lower", "upper"},
          rest \in {<< <<>>, <<>> >>, <<<<" ", "a", ".", "j", "s">>, <<"a", ".", "j", "s">>>>, <<<<" ", " ", " ", "b", " ", "c", " ", " ">>, <<"b", " ", "c">>>>}}
  \cup {ReplInput("dispatch", <<".", "t", "a", "b", "s">>, <<"t", "a", "b", "s">>, <<>>),
        ReplInput("dispatch", <<".", "t">>, <<"t">>, <<>>),
        ReplInput("dispatch", <<".", "p", "a", "g", "e", "s">>, <<"p", "a", "g", "e", "s">>, <<>>),
        ReplInput("dispatch", <<".", "T", "A", "B", " ", "0">>, <<"T", "A", "B">>, <<"0">>),
        ReplInput("dispatch", <<".", "t", "a", "b">>, <<"t", "a", "b">>, <<>>),
        ReplInput("dispatch", <<".", "s", "e", "l", "e", "c", "t", " ", "i", "n", "j", "e", "c", "t">>, <<"s", "e", "l", "e", "c", "t">>, <<"i", "n", "j", "e", "c", "t">>),
        ReplInput("dispatch", <<".", "r", "e", "l", "o", "a", "d">>, <<"r", "e", "l", "o", "a", "d">>, <<>>),
        ReplInput("dispatch", <<".", "R">>, <<"R">>, <<>>)}
  \cup {ReplInput("unknown", <<".", "f", "o", "o", "b", "a", "r">>, <<"f", "o", "o", "b", "a", "r">>, <<>>),
        ReplInput("unknown", <<".", "F", "o", "o", "B", "a", "r">>, <<"F", "o", "o", "B", "a", "r">>, <<>>),
        ReplInput("unknown", <<".", "f", "o", "o", " ", "i", "n", "j", "e", "c", "t", " ", "x">>, <<"f", "o", "o">>, <<"i", "n", "j", "e", "c", "t", " ", "x">>),
        ReplInput("unknown", <<".", "h", "e", "l", "p", "m", "e">>, <<"h", "e", "l", "p", "m", "e">>, <<>>),
        ReplInput("unknown", <<".", "i", "n", "j", "e", "c", "t", "x", " ", "a", ".", "j", "s">>, <<"i", "n", "j", "e", "c", "t", "x">>, <<"a", ".", "j", "s">>),
        ReplInput("unknown", <<".", "t", "o", "S", "t", "r", "i", "n", "g">>, <<"t", "o", "S", "t", "r", "i", "n", "g">>, <<>>),
        ReplInput("unknown", <<".", "v", "a", "l", "u", "e", "O", "f">>, <<"v", "a", "l", "u", "e", "O", "f">>, <<>>),
        ReplInput("unknown", <<".", "c", "o", "n", "s", "t", "r", "u", "c", "t", "o", "r">>, <<"c", "o", "n", "s", "t", "r", "u", "c", "t", "o", "r">>, <<>>),
        ReplInput("unknown", <<".", "c", "o", "n", "s", "t", "r", "u", "c", "t", "o", "r", " ", "c", ".", "j", "s">>, <<"c", "o", "n", "s", "t", "r", "u", "c", "t", "o", "r">>, <<"c", ".", "j", "s">>),
        ReplInput("unknown", <<".", "_", "_", "p", "r", "o", "t", "o", "_", "_">>, <<"_", "_", "p", "r", "o", "t", "o", "_", "_">>, <<>>),
        ReplInput("unknown", <<".">>, <<>>, <<>>)}

\* protocol.parse(input)
ReplParseCall(input) ==
  /\ replLast' = [op |-> "parse", input |-> input, result |-> ReplParse(input.text, lang)]
  /\ lastInjectRef' = ReplLastInjectRef(input.text, lastInjectRef)
  /\ replInjected' = IF input.kind = "inject" /\ input.arg # <<>> THEN JStr(input.arg) ELSE replInjected
  /\ UNCHANGED <<protocol, prompt, prompted, registered, localContext, lang, methods, running, rl, startPromise,
                 inflight, output, lines, settled, escaped, alive, stopCalled>>
  /\ UNCHANGED outsideRepl

\* protocol.handleLocal(input, ctx): what the command printed, or null
ReplHandleLocalCall(input) ==
  /\ replLast' = [op |-> "handleLocal", input |-> input,
                  result |-> IF ReplIsLocal(input.text)
                             THEN JStr(LocalOutput(parseDotCommand(trim(input.text)).name))
                             ELSE JNull]
  /\ UNCHANGED <<replInjected, sessionVars>>
  /\ UNCHANGED outsideRepl

ReplInit ==
  /\ SessionConstructed /\ protocol = "repl" /\ ~localContext
  /\ ConnIdle /\ NreplListening /\ RpcIdle /\ ReplIdle /\ RestIdle

ReplNext ==
  \/ \E input \in ReplLines : ReplParseCall(input)
  \/ \E input \in ReplLines : ReplHandleLocalCall(input)

ReplSpec == ReplInit /\ [][ReplNext]_vars

(***************************************************************************)
(* ReplProtocol.parse on its own, for adapters of either language and for  *)
(* every name of DISPATCH_MAP.                                             *)
(***************************************************************************)

\* new ReplProtocol(lang)
Languages == {<<"j", "s">>, <<"c", "l", "j", "s">>}

\* every dispatched command but the inject ones, typed in three ways, alone
\* and followed by a remainder; and bare text
ParseLines ==
  ReplLines
  \cup {ReplInput("dispatch", <<".">> \o Typed(name, casing) \o rest[1], Typed(name, casing), rest[2]) :
          name \in DispatchNames, casing \in {"lower", "upper", "capital"},
          rest \in {<< <<>>, <<>> >>, <<<<" ", " ", "i", "n", "j", "e", "c", "t", " ", " ", "x", " ">>, <<"i", "n", "j", "e", "c", "t", " ", " ", "x">>>>}}
  \cup {ReplInput("bare", t, <<>>, <<>>) : t \in {<<"\t", "(", "+", " ", "1", " ", "2", ")", " ", ".">>, <<"a", " ", ".", "b">>}}

ParseInit ==
  /\ ConstructedWith({FALSE}, Languages) /\ protocol = "repl" /\ ~localContext
  /\ ConnIdle /\ NreplListening /\ RpcIdle /\ ReplIdle /\ RestIdle

ParseNext == \E input \in ParseLines : ReplParseCall(input)

ParseSpec == ParseInit /\ [][ParseNext]_vars

(***************************************************************************)
(* A JSON-RPC session whose caller registers handlers while lines arrive   *)
(* (session/session.ts register and handleLine)                            *)
(***************************************************************************)
RegisterHandlers == {"custom1", "custom2"}

RegisterInit ==
  /\ SessionConstructed /\ protocol = "jsonrpc"
  /\ ConnIdle /\ NreplListening /\ RpcIdle /\ ReplIdle /\ RestIdle

RegisterNext ==
  \/ \E m \in RegNames, h \in RegisterHandlers : Register(m, h)
  \/ Start
  \/ \E raw \in Inputs : LineUnknownMethod(raw)
  \/ \E raw \in Inputs : LineDispatched(raw)

RegisterSpec == RegisterInit /\ [][RegisterNext]_vars

(***************************************************************************)
(* A JSON-RPC session constructed with or without options.prompt           *)
(* (session/session.ts start)                                              *)
(***************************************************************************)
PromptInit ==
  /\ Constructed(BOOLEAN) /\ protocol = "jsonrpc"
  /\ ConnIdle /\ NreplListening /\ RpcIdle /\ ReplIdle /\ RestIdle

PromptNext ==
  \/ Start
  \/ InputEnd
  \/ Stop
  \/ \E raw \in Inputs : LineSkipped(raw)
  \/ \E raw \in Inputs : LineProtocolError(raw)
  \/ \E raw \in Inputs : LineDispatched(raw)
  \/ \E inv \in inflight : \E o \in AllOutcomes : HandlerResolves(inv, o)

PromptSpec == PromptInit /\ [][PromptNext]_vars

(***************************************************************************)
(* The discovery file of the nREPL server (nrepl/server.ts).               *)
(***************************************************************************)

\* ports a server can be given
ListenPorts == {7888, 7889}

\* what a caller passes to startNreplServer
ServerOptions ==
  [port : {Undefined, JNum(0), JNum(7888)}, cwd : {Undefined} \cup {JStr(d) : d \in Dirs}]

\* ports on which a server of this process is listening
PortsInUse == {servers[s].port : s \in {t \in 1..MaxServers : servers[t].state = "listening"}}

\* writePortFile: fs.writeFileSync(filePath, String(port), 'utf8')
writePortFile(fs, dir, port) == [fs EXCEPT ![dir] = File(NatDigits(port))]

\* deletePortFile: fs.unlinkSync(filePath), errors ignored
deletePortFile(fs, dir) == [fs EXCEPT ![dir] = NoFile]

\* startNreplServer resolves: the server listens on the port asked for, or
\* for port 0 on one the system picks, the callback of listen writes the
\* file, registers cleanup for the exit of the process and resolves
StartNreplServer(s, opts) ==
  /\ servers[s] = NotStarted
  /\ \A t \in 1..MaxServers : servers[t].state # "exited"
  /\ LET port == Coalesce(opts.port, JNum(0)).v
         cwd == Coalesce(opts.cwd, JStr(ProcessCwd)).v
     IN \E actualPort \in ListenPorts \ PortsInUse :
          /\ port # 0 => actualPort = port
          /\ servers' = [servers EXCEPT ![s] = [state |-> "listening", cwd |-> cwd, port |-> actualPort]]
          /\ files' = writePortFile(files, cwd, actualPort)
  /\ UNCHANGED outsidePort

\* close() of the resolved server: cleanup(), then server.close
CloseServer(s) ==
  /\ servers[s].state \in {"listening", "closed"}
  /\ servers' = [servers EXCEPT ![s].state = "closed"]
  /\ files' = deletePortFile(files, servers[s].cwd)
  /\ UNCHANGED outsidePort

RECURSIVE Cleanups(_, _)
\* the cleanup listeners of 'exit', one per server that has been started
Cleanups(fs, started) ==
  IF started = {} THEN fs
  ELSE LET s == CHOOSE t \in started : TRUE
       IN Cleanups(deletePortFile(fs, servers[s].cwd), started \ {s})

\* the process exits: every registered cleanup runs
ProcessExit ==
  /\ \E s \in 1..MaxServers : servers[s].state \in {"listening", "closed"}
  /\ files' = Cleanups(files, {s \in 1..MaxServers : servers[s] # NotStarted})
  /\ servers' = [s \in 1..MaxServers |->
                   IF servers[s] = NotStarted THEN NotStarted ELSE [servers[s] EXCEPT !.state = "exited"]]
  /\ UNCHANGED outsidePort

PortInit ==
  /\ SessionConstructed /\ protocol = "jsonrpc"
  /\ ConnIdle /\ NreplListening /\ RpcIdle /\ ReplIdle /\ RestIdle

PortNext ==
  \/ \E s \in 1..MaxServers, opts \in ServerOptions : StartNreplServer(s, opts)
  \/ \E s \in 1..MaxServers : CloseServer(s)
  \/ ProcessExit

PortSpec == PortInit /\ [][PortNext]_vars

(***************************************************************************)
(* The pages of one ChromeConnection (chrome/connection.ts): which page is *)
(* current, and in which page evaluate and injectScript run.               *)
(***************************************************************************)

\* the REPL and the nREPL server of commands/nrepl.ts hold the same connection
Callers == {"repl", "nrepl"}

\* what selectPage is called with
UrlPatterns == {<<"a", "p", "p">>, <<"D", "O", "C", "S">>, <<"l", "o", "c", "a", "l", "h", "o", "s", "t">>, <<"n", "o", "w", "h", "e", "r", "e">>}

\* what selectPageByIndex is called with
PageIndexes == (0 - 1)..Len(PageUrls)

ScriptUrls == {<<"h", "t", "t", "p", ":", "/", "/", "l", "o", "c", "a", "l", "h", "o", "s", "t", "/", "x", ".", "j", "s">>}

\* expressions handed to evaluate
Codes == {<<"x">>, <<"y">>}

\* what a page makes of an expression: x.js defines x, nothing defines y
PageEvaluate(code, scripts) ==
  IF code = <<"x">> /\ <<"h", "t", "t", "p", ":", "/", "/", "l", "o", "c", "a", "l", "h", "o", "s", "t", "/", "x", ".", "j", "s">> \in scripts
  THEN [success |-> TRUE, value |-> JNum(3)]
  ELSE [success |-> FALSE, error |-> JStr(code \o <<" ", "i", "s", " ", "n", "o", "t", " ", "d", "e", "f", "i", "n", "e", "d">>)]

NoPageSelected == [success |-> FALSE, error |-> JStr(<<"N", "o", " ", "p", "a", "g", "e", " ", "s", "e", "l", "e", "c", "t", "e", "d">>)]

\* connect: the first page of the first context becomes the current page
Connect ==
  /\ ~browser
  /\ browser' = TRUE
  /\ currentPage' = IF Len(PageUrls) > 0 THEN 1 ELSE currentPage
  /\ UNCHANGED <<cdpSession, globals, replaced, lastRun>>
  /\ UNCHANGED outsidePage

\* disconnect: the CDP session is detached and dropped, the browser closed
Disconnect ==
  /\ browser
  /\ cdpSession' = 0
  /\ browser' = FALSE
  /\ currentPage' = 0
  /\ UNCHANGED <<globals, replaced, lastRun>>
  /\ UNCHANGED outsidePage

\* getPages: the pages of the context, none without a context
getPages == IF browser THEN PageUrls ELSE <<>>

\* pages.find: the first page the predicate holds for, 0 for undefined
Find(pages, hits) == IF hits = {} THEN 0 ELSE CHOOSE i \in hits : \A j \in hits : i <= j

\* this.currentPage = page, in selectPage and in selectPageByIndex
Selected(page) ==
  /\ currentPage' = page
  /\ replaced' = IF page # currentPage THEN replaced \cup {currentPage} ELSE replaced
  /\ UNCHANGED <<browser, cdpSession, globals, lastRun>>

\* selectPage finds a page whose URL includes the pattern, both in lower
\* case; when it finds none it returns null and nothing changes
SelectPage(urlPattern) ==
  LET pages == getPages
      pattern == toLowerCase(urlPattern)
      page == Find(pages, {i \in 1..Len(pages) : includes(toLowerCase(pages[i]), pattern)})
  IN /\ page # 0
     /\ Selected(page)
     /\ UNCHANGED outsidePage

\* selectPageByIndex with an index inside the list; outside it returns
\* null and nothing changes
SelectPageByIndex(index) ==
  LET pages == getPages
  IN /\ index >= 0 /\ index < Len(pages)
     /\ Selected(index + 1)
     /\ UNCHANGED outsidePage

\* what lastRun records of a call: the page it ran in, 0 when it threw
\* before reaching a page
Ran(caller, op, page, result) ==
  [caller |-> caller, op |-> op, page |-> page, result |-> result,
   selected |-> currentPage, previous |-> replaced]

\* evaluate of connection.ts: this.currentPage.evaluate(wrappedExpression)
Evaluate(caller, code) ==
  /\ lastRun' = IF currentPage = 0 THEN Ran(caller, "evaluate", 0, NoPageSelected)
                ELSE Ran(caller, "evaluate", currentPage, PageEvaluate(code, globals[currentPage]))
  /\ UNCHANGED <<browser, currentPage, cdpSession, globals, replaced>>
  /\ UNCHANGED outsidePage

\* getCDPSession: the session kept in this.cdpSession, created for the
\* current page when there is none
getCDPSession == IF cdpSession = 0 THEN currentPage ELSE cdpSession

\* the other evaluate (unnamed/part_019): Runtime.evaluate over the CDP session
EvaluateOverCDP(caller, code) ==
  /\ IF currentPage = 0
     THEN /\ lastRun' = Ran(caller, "evaluateOverCDP", 0, NoPageSelected)
          /\ UNCHANGED cdpSession
     ELSE /\ cdpSession' = getCDPSession
          /\ lastRun' = Ran(caller, "evaluateOverCDP", getCDPSession, PageEvaluate(code, globals[getCDPSession]))
  /\ UNCHANGED <<browser, currentPage, globals, replaced>>
  /\ UNCHANGED outsidePage

\* injectScript: evaluateInMainWorld sends Runtime.evaluate over the CDP
\* session, and the script runs in the page of that session
InjectScript(caller, url) ==
  /\ IF currentPage = 0
     THEN /\ lastRun' = Ran(caller, "injectScript", 0, NoPageSelected)
          /\ UNCHANGED <<cdpSession, globals>>
     ELSE /\ cdpSession' = getCDPSession
          /\ globals' = [globals EXCEPT ![getCDPSession] = @ \cup {url}]
          /\ lastRun' = Ran(caller, "injectScript", getCDPSession, [success |-> TRUE, value |-> Undefined])
  /\ UNCHANGED <<browser, currentPage, replaced>>
  /\ UNCHANGED outsidePage

PageInit ==
  /\ SessionConstructed /\ protocol = "jsonrpc"
  /\ ConnIdle /\ NreplListening /\ RpcIdle /\ ReplIdle /\ RestIdle

PageNext ==
  \/ Connect
  \/ Disconnect
  \/ \E urlPattern \in UrlPatterns : SelectPage(urlPattern)
  \/ \E index \in PageIndexes : SelectPageByIndex(index)
  \/ \E caller \in Callers, code \in Codes : Evaluate(caller, code)
  \/ \E caller \in Callers, code \in Codes : EvaluateOverCDP(caller, code)
  \/ \E caller \in Callers, url \in ScriptUrls : InjectScript(caller, url)

PageSpec == PageInit /\ [][PageNext]_vars

(***************************************************************************)
(* The eval op of the nREPL server (nrepl/ops.ts) beside clone and close,  *)
(* over the pages of the connection.                                       *)
(***************************************************************************)

\* ClojureScript sources of eval requests: a symbol, and a form that is not closed
EvalCodes == {<<"x">>, <<"(">>}

\* eval requests: with a session id of the pool, or without session
EvalMessages ==
  {<<<<<<"c", "o", "d", "e">>, JStr(code)>>, <<<<"o", "p">>, JStr(<<"e", "v", "a", "l">>)>>>> \o session :
     code \in EvalCodes,
     session \in {<<>>} \cup {<<<<<<"s", "e", "s", "s", "i", "o", "n">>, JStr(sid)>>>> : sid \in UuidPool}}

\* close requests
CloseMessages ==
  {<<<<<<"o", "p">>, JStr(<<"c", "l", "o", "s", "e">>)>>>> \o session :
     session \in {<<>>} \cup {<<<<<<"s", "e", "s", "s", "i", "o", "n">>, JStr(sid)>>>> : sid \in UuidPool}}

\* how the session id of a request stands with the server
Standing(msg) ==
  LET sid == MsgGet(msg, <<"s", "e", "s", "s", "i", "o", "n">>)
  IN IF sid = Undefined THEN "absent"
     ELSE IF sid.v \in sessions THEN "in table"
     ELSE IF sid.v \in uuids THEN "closed"
     ELSE "never cloned"

\* cljs/compiler.ts compile: squint compiles a symbol to the identifier of
\* that name and throws on a form that is not closed
compile(source) ==
  IF source = <<"(">>
  THEN [success |-> FALSE, error |-> JStr(<<"E", "O", "F", " ", "w", "h", "i", "l", "e", " ", "r", "e", "a", "d", "i", "n", "g">>)]
  ELSE [success |-> TRUE, js |-> source]

\* evaluateCljs: compile, then connection.evaluate in the current page; what
\* evaluate throws becomes the error of the result
evaluateCljs(source, page, scripts) ==
  LET compiled == compile(source)
  IN IF ~compiled.success THEN [success |-> FALSE, error |-> compiled.error]
     ELSE IF page = 0 THEN NoPageSelected
     ELSE PageEvaluate(compiled.js, scripts)

\* evaluation is refused for a session id that is not in the table
evalOp_KnownSessionsOnly(msg, table, page, scripts) ==
  LET sid == MsgGet(msg, <<"s", "e", "s", "s", "i", "o", "n">>)
  IN IF IsTruthy(sid) /\ sid.v \in table
     THEN EvalResponses(evaluateCljs(MsgGet(msg, <<"c", "o", "d", "e">>).v, page, scripts))
     ELSE <<<<<<<<"e", "r", "r">>, JStr(<<"u", "n", "k", "n", "o", "w", "n", " ", "s", "e", "s", "s", "i", "o", "n">>)>>>>,
            <<<<<<"s", "t", "a", "t", "u", "s">>, StatusOf(<<<<"d", "o", "n", "e">>>>)>>>>>>

\* ops.ts evalOp: what it yields for msg; table is ctx.sessions, page and
\* scripts the state of the browser behind ctx.connection
evalOp(msg, table, page, scripts) ==
  EvalResponses(evaluateCljs(MsgGet(msg, <<"c", "o", "d", "e">>).v, page, scripts))

\* the clone op: newSession under the id randomUUID returns
CloneOp(id) ==
  /\ id \in UuidPool \ uuids
  /\ sessions' = newSession(sessions, id)
  /\ uuids' = uuids \cup {id}
  /\ UNCHANGED <<buffer, wire, written, chunks, requests, evaluating, socketOut>>
  /\ UNCHANGED <<pageVars, evalVars>>
  /\ UNCHANGED outsideEval

\* the close op
CloseOp(msg) ==
  /\ sessions' = CloseSession(sessions, MsgGet(msg, <<"s", "e", "s", "s", "i", "o", "n">>))
  /\ UNCHANGED <<uuids, buffer, wire, written, chunks, requests, evaluating, socketOut>>
  /\ UNCHANGED <<pageVars, evalVars>>
  /\ UNCHANGED outsideEval

\* the state of the browser an evaluation meets: the current page and the
\* scripts that have run in it
BrowserState == [page |-> currentPage, scripts |-> IF currentPage = 0 THEN {} ELSE globals[currentPage]]

\* the eval op from the request to its last response
EvalOp(msg) ==
  LET source == MsgGet(msg, <<"c", "o", "d", "e">>).v
      b == BrowserState
  IN /\ observed' = [prev |-> observed.last,
                     last |-> [code |-> source, browser |-> b, standing |-> Standing(msg),
                               responses |-> evalOp(msg, sessions, b.page, b.scripts)]]
     /\ lastRun' = IF compile(source).success
                   THEN Ran("nrepl", "evaluate", b.page, evaluateCljs(source, b.page, b.scripts))
                   ELSE lastRun
     /\ UNCHANGED <<browser, currentPage, cdpSession, globals, replaced>>
     /\ UNCHANGED nreplVars
     /\ UNCHANGED outsideEval

EvalInit ==
  /\ SessionConstructed /\ protocol = "jsonrpc"
  /\ ConnIdle /\ NreplListening /\ RpcIdle /\ ReplIdle /\ RestIdle

EvalNext ==
  \/ \E id \in UuidPool : CloneOp(id)
  \/ \E msg \in CloseMessages : CloseOp(msg)
  \/ \E msg \in EvalMessages : EvalOp(msg)
  \/ Connect
  \/ \E url \in ScriptUrls : InjectScript("repl", url)

EvalSpec == EvalInit /\ [][EvalNext]_vars

(***************************************************************************)
(* classifyConnectError on its own, for Errors and for other thrown values *)
(***************************************************************************)

HostSkipMarkers == {<<"e", "p", "e", "r", "m">>, <<"e", "c", "o", "n", "n", "r", "e", "f", "u", "s", "e", "d">>}

TransientMarkers == {<<"t", "i", "m", "e", "o", "u", "t">>, <<"e", "c", "o", "n", "n", "r", "e", "s", "e", "t">>, <<"e", "n", "o", "t", "f", "o", "u", "n", "d">>, <<"e", "h", "o", "s", "t", "u", "n", "r", "e", "a", "c", "h">>}

\* the text of a message: no marker, one, or two in either order, in lower
\* or upper case, between words that contain no marker
MessageTexts ==
  LET markers == HostSkipMarkers \cup TransientMarkers
      cased(m, casing) == IF casing = "upper" THEN toUpperCase(m) ELSE m
  IN {[text |-> <<"c", "o", "n", "n", "e", "c", "t", " ", "f", "a", "i", "l", "e", "d">>, markers |-> {}]}
     \cup {[text |-> <<"c", "o", "n", "n", "e", "c", "t", " ">> \o cased(m, casing) \o <<" ", "1", "2", "7", ".", "0", ".", "0", ".", "1", ":", "9", "2", "2", "2">>, markers |-> {m}] :
             m \in markers, casing \in {"lower", "upper"}}
     \cup {[text |-> cased(m, casing) \o <<":", " ">> \o n, markers |-> {m, n}] :
             m \in markers, n \in markers, casing \in {"lower", "upper"}}

\* what a failed connect() can throw: an Error with a message, or any other
\* value
Throwables ==
  {[value |-> [class |-> "Error", message |-> m.text], markers |-> m.markers] : m \in MessageTexts}
  \cup {[value |-> JStr(m.text), markers |-> m.markers] : m \in MessageTexts}
  \cup {[value |-> v, markers |-> {}] : v \in {Undefined, JNull, JNum(408), JObj(EmptyObject)}}

\* classifyConnectError(err)
Classify ==
  /\ classification = "unclassified"
  /\ classification' = classifyConnectError(thrown.value)
  /\ UNCHANGED thrown
  /\ UNCHANGED outsideClassify

\* the value is classified again
ClassifyAgain ==
  /\ classification # "unclassified"
  /\ classification' = classifyConnectError(thrown.value)
  /\ UNCHANGED thrown
  /\ UNCHANGED outsideClassify

ClassifyInit ==
  /\ SessionConstructed /\ protocol = "jsonrpc"
  /\ ConnIdle /\ NreplListening /\ RpcIdle /\ ReplIdle
  /\ NoServers /\ NoBrowser /\ NotObserved /\ NotInvoked /\ NotLaunched /\ RuntimeLoaded
  /\ thrown \in Throwables
  /\ classification = "unclassified"

ClassifyNext == Classify \/ ClassifyAgain

ClassifySpec == ClassifyInit /\ [][ClassifyNext]_vars

(***************************************************************************)
(* The framing of the nREPL server for dictionaries that are not written   *)
(* the way bencode.encode writes them.                                     *)
(***************************************************************************)

\* dictionaries the decoder accepts: written as the encoder writes them, with
\* keys out of order, with an integer written with a leading zero, and with
\* a key given twice
LenientMessages ==
  {<<"d", "2", ":", "o", "p", "5", ":", "c", "l", "o", "n", "e", "e">>,
   <<"d", "2", ":", "o", "p", "1", ":", "x", "1", ":", "a", "i", "5", "e", "e">>,
   <<"d", "2", ":", "i", "d", "i", "0", "7", "e", "2", ":", "o", "p", "8", ":", "d", "e", "s", "c", "r", "i", "b", "e", "e">>,
   <<"d", "2", ":", "o", "p", "3", ":", "f", "o", "o", "2", ":", "o", "p", "8", ":", "d", "e", "s", "c", "r", "i", "b", "e", "e">>}

\* one client; the network delivers what it has written in chunks of any
\* length
LenientNext ==
  \/ \E m \in LenientMessages : ClientWrites(1, m)
  \/ \E k \in 1..Len(wire[1]) : Data(1, k)

LenientSpec == NreplInit /\ [][LenientNext]_vars

(***************************************************************************)
(* A connection whose client sends a byte that begins no bencode value,    *)
(* next to a connection whose client keeps to the protocol.                *)
(***************************************************************************)
\* a byte that is no digit, no sign, no dot and none of d, l, i
Junk == <<"x">>

\* what the client of connection 1 writes: a request the server answers at
\* once, a request it answers when the evaluation settles, and the junk byte
JunkMessages == {<<"d", "2", ":", "o", "p", "8", ":", "d", "e", "s", "c", "r", "i", "b", "e", "e">>, <<"d", "4", ":", "c", "o", "d", "e", "1", ":", "x", "2", ":", "i", "d", "1", ":", "3", "2", ":", "o", "p", "4", ":", "e", "v", "a", "l", "e">>, Junk}

\* what the client of connection 2 writes
ProperMessages == {<<"d", "2", ":", "o", "p", "8", ":", "d", "e", "s", "c", "r", "i", "b", "e", "e">>}

\* clients on both sockets; everything a client has written arrives as one
\* chunk
JunkNext ==
  \/ \E m \in JunkMessages : ClientWritesUpTo(1, m, MaxWrites)
  \/ \E m \in ProperMessages : ClientWritesUpTo(2, m, MaxWrites)
  \/ \E c \in Conns : Data(c, Len(wire[c]))
  \/ \E n \in evaluating, result \in EvalResults : EvalSettles(n, result)

JunkSpec == NreplInit /\ [][JunkNext]_vars

(***************************************************************************)
(* The built-in methods eval and cljs-eval called on their own, with the   *)
(* params a JSON-RPC client can send.                                      *)
(***************************************************************************)
\* values of params.code: absent, null, strings, and values that are no
\* strings
CodeValues ==
  {Undefined, JNull, JStr(<<>>), JStr(<<"x">>), JStr(<<"(", "+", " ", "1", " ", "2", ")">>), JNum(0), JArr(<<>>)}

\* values of params.lang: absent, null, the two languages, other strings, and
\* values that are no strings
LangValues ==
  {Undefined, JNull, JStr(<<"j", "s">>), JStr(<<"c", "l", "j", "s">>), JStr(<<"p", "y", "t", "h", "o", "n">>), JStr(<<>>),
   JStr(<<"C", "L", "J", "S">>), JNum(7), JArr(<<JStr(<<"c", "l", "j", "s">>)>>), JArr(<<JStr(<<"j", "s">>)>>)}

\* the params object: a member whose value is undefined is absent
ParamsOf(code, language) ==
  LET members == [k \in {"code", "lang"} |-> IF k = "code" THEN code ELSE language]
  IN [k \in {k \in {"code", "lang"} : members[k] # Undefined} |-> members[k]]

\* what evaluate and evaluateCljs resolve with
EvaluatorResults ==
  {[success |-> TRUE, value |-> JNum(3)],
   [success |-> FALSE, error |-> <<"R", "e", "f", "e", "r", "e", "n", "c", "e", "E", "r", "r", "o", "r", ":", " ", "x", " ", "i", "s", " ", "n", "o", "t", " ", "d", "e", "f", "i", "n", "e", "d">>],
   [success |-> FALSE, error |-> <<"C", "o", "m", "p", "i", "l", "e", " ", "e", "r", "r", "o", "r">>]}

Pending == [tag |-> "pending"]

\* builtinMethods.eval(params) and builtinMethods['cljs-eval'](params) up to
\* the await of the evaluator
Invoke(name, params) ==
  /\ invoked = NotCalled
  /\ invoked' = [name |-> name, params |-> params]
  /\ LET route == EvalRoute(IF name = <<"c", "l", "j", "s", "-", "e", "v", "a", "l">> THEN WithCljs(params) ELSE params)
     IN IF route.rejected
        THEN /\ returned' = Reject(route.message)
             /\ UNCHANGED evaluatorCalls
        ELSE /\ returned' = Pending
             /\ evaluatorCalls' = Append(evaluatorCalls, [evaluator |-> route.evaluator, code |-> route.code,
                                                           result |-> Pending])
  /\ UNCHANGED outsideMethod

\* the evaluator resolves: its value is returned, or its error is thrown
EvaluatorResolves(result) ==
  /\ returned = Pending
  /\ returned' = IF result.success THEN Resolve(result.value) ELSE Reject(result.error)
  /\ evaluatorCalls' = [evaluatorCalls EXCEPT ![Len(evaluatorCalls)].result = result]
  /\ UNCHANGED invoked
  /\ UNCHANGED outsideMethod

\* the evaluator rejects (the connection has no page): the method rejects
\* with the same error
EvaluatorRejects ==
  /\ returned = Pending
  /\ returned' = Reject(<<"N", "o", "t", " ", "c", "o", "n", "n", "e", "c", "t", "e", "d">>)
  /\ evaluatorCalls' = [evaluatorCalls EXCEPT ![Len(evaluatorCalls)].result = [threw |-> <<"N", "o", "t", " ", "c", "o", "n", "n", "e", "c", "t", "e", "d">>]]
  /\ UNCHANGED invoked
  /\ UNCHANGED outsideMethod

MethodInit ==
  /\ SessionConstructed /\ protocol = "jsonrpc"
  /\ ConnIdle /\ NreplListening /\ RpcIdle /\ ReplIdle
  /\ NoServers /\ NoBrowser /\ NotObserved /\ NotClassified /\ NotInvoked /\ NotLaunched /\ RuntimeLoaded

MethodNext ==
  \/ \E name \in {<<"e", "v", "a", "l">>, <<"c", "l", "j", "s", "-", "e", "v", "a", "l">>}, code \in CodeValues, language \in LangValues :
       Invoke(name, ParamsOf(code, language))
  \/ \E result \in EvaluatorResults : EvaluatorResolves(result)
  \/ EvaluatorRejects

MethodSpec == MethodInit /\ [][MethodNext]_vars

(***************************************************************************)
(* launchChrome (chrome/launcher.ts) on a machine where Chrome may already *)
(* be running.                                                             *)
(***************************************************************************)
Failure(message) == [success |-> FALSE, message |-> message]

\* launchChrome(options).  comesUp: the spawned Chrome answers on the port
\* after the wait of one second.
launchChrome(comesUp) ==
  /\ Len(launches) < MaxLaunches
  /\ LET done(result, spawns) ==
           launches' = Append(launches, [listening |-> listening, spawned |-> spawns, result |-> result])
     IN IF chromeAt = "none"
        THEN /\ done(Failure("Chrome not found"), FALSE)
             /\ UNCHANGED <<listening, profileLock, spawned, sessionState>>
        ELSE IF chromeAt = "missing"
        THEN /\ done(Failure("Chrome executable not found at"), FALSE)
             /\ UNCHANGED <<listening, profileLock, spawned, sessionState>>
        ELSE IF listening
        THEN /\ done([success |-> TRUE, message |-> "Chrome already running on port", pid |-> sessionState], FALSE)
             /\ UNCHANGED <<listening, profileLock, spawned, sessionState>>
        ELSE IF profileLock
        THEN /\ done(Failure("Profile is locked by another Chrome instance"), FALSE)
             /\ UNCHANGED <<listening, profileLock, spawned, sessionState>>
        ELSE /\ spawned' = spawned + 1
             /\ profileLock' = TRUE
             /\ listening' = comesUp
             /\ IF comesUp
                THEN /\ sessionState' = spawned + 1
                     /\ done([success |-> TRUE, message |-> "Chrome launched on port", pid |-> spawned + 1], TRUE)
                ELSE /\ UNCHANGED sessionState
                     /\ done(Failure("Chrome started but debugging endpoint not responding"), TRUE)
  /\ UNCHANGED chromeAt
  /\ UNCHANGED outsideLaunch

\* the Chrome that answers on the port exits; its lock file may stay behind
ChromeExits(stale) ==
  /\ listening
  /\ listening' = FALSE
  /\ profileLock' = (profileLock /\ stale)
  /\ UNCHANGED <<chromeAt, spawned, sessionState, launches>>
  /\ UNCHANGED outsideLaunch

\* a Chrome that was started, by launchChrome or by hand, begins to answer
ChromeAnswers ==
  /\ ~listening
  /\ listening' = TRUE
  /\ UNCHANGED <<chromeAt, profileLock, spawned, sessionState, launches>>
  /\ UNCHANGED outsideLaunch

LaunchInit ==
  /\ SessionConstructed /\ protocol = "jsonrpc"
  /\ ConnIdle /\ NreplListening /\ RpcIdle /\ ReplIdle
  /\ NoServers /\ NoBrowser /\ NotObserved /\ NotClassified /\ NotInvoked /\ RuntimeLoaded
  /\ chromeAt \in {"none", "missing", "found"}
  /\ listening \in BOOLEAN
  /\ profileLock \in BOOLEAN
  /\ spawned = 0 /\ sessionState = 0 /\ launches = <<>>

LaunchNext ==
  \/ \E comesUp \in BOOLEAN : launchChrome(comesUp)
  \/ \E stale \in BOOLEAN : ChromeExits(stale)
  \/ ChromeAnswers

LaunchSpec == LaunchInit /\ [][LaunchNext]_vars

(***************************************************************************)
(* injectRuntime and invalidateRuntime (cljs/runtime.ts) on a connection   *)
(* whose current page changes.  The pages of one browser connection are    *)
(* the same Page objects for as long as it lasts, so a page is known by    *)
(* its position.                                                           *)
(***************************************************************************)
\* the global the core script defines
CoreScript == <<"s", "q", "u", "i", "n", "t", "_", "c", "o", "r", "e">>

\* what injections records of a call of injectRuntime
Injected(page, evaluatedIn, threw) ==
  [op |-> "injectRuntime", page |-> page, evaluatedIn |-> evaluatedIn, threw |-> threw]

\* the failed evaluation is recorded like a successful one
injectRuntime_RecordsFailure(overCDP, fails) ==
  LET page == currentPage
  IN /\ Len(injections) < MaxInjections
     /\ IF page = lastInjectedPage
        THEN /\ injections' = Append(injections, Injected(page, 0, FALSE))
             /\ UNCHANGED <<cachedScript, lastInjectedPage, cdpSession, globals, lastRun>>
        ELSE /\ cachedScript' = TRUE
             /\ IF currentPage = 0
                THEN /\ injections' = Append(injections, Injected(page, 0, TRUE))
                     /\ lastRun' = Ran("runtime", "evaluate", 0, NoPageSelected)
                     /\ UNCHANGED <<lastInjectedPage, cdpSession, globals>>
                ELSE LET target == IF overCDP THEN getCDPSession ELSE currentPage
                     IN /\ cdpSession' = IF overCDP THEN target ELSE cdpSession
                        /\ injections' = Append(injections, Injected(page, target, fails))
                        /\ lastInjectedPage' = page
                        /\ IF fails
                           THEN /\ lastRun' = Ran("runtime", "evaluate", target,
                                                  [success |-> FALSE, error |-> JStr(<<"E", "v", "a", "l", "u", "a", "t", "i", "o", "n", " ", "f", "a", "i", "l", "e", "d">>)])
                                /\ UNCHANGED globals
                           ELSE /\ lastRun' = Ran("runtime", "evaluate", target,
                                                  [success |-> TRUE, value |-> Undefined])
                                /\ globals' = [globals EXCEPT ![target] = @ \cup {CoreScript}]
     /\ UNCHANGED <<browser, currentPage, replaced>>
     /\ UNCHANGED outsideRuntime

\* injectRuntime(connection).  overCDP: connection.evaluate is the one that
\* sends Runtime.evaluate over the CDP session (unnamed/part_019), not
\* this.currentPage.evaluate.  fails: the evaluation throws in the page.
injectRuntime(overCDP, fails) ==
  LET page == currentPage
  IN /\ Len(injections) < MaxInjections
     /\ IF page = lastInjectedPage
        THEN /\ injections' = Append(injections, Injected(page, 0, FALSE))
             /\ UNCHANGED <<cachedScript, lastInjectedPage, cdpSession, globals, lastRun>>
        ELSE /\ cachedScript' = TRUE
             /\ IF currentPage = 0
                THEN /\ injections' = Append(injections, Injected(page, 0, TRUE))
                     /\ lastRun' = Ran("runtime", "evaluate", 0, NoPageSelected)
                     /\ UNCHANGED <<lastInjectedPage, cdpSession, globals>>
                ELSE LET target == IF overCDP THEN getCDPSession ELSE currentPage
                     IN /\ cdpSession' = IF overCDP THEN target ELSE cdpSession
                        /\ injections' = Append(injections, Injected(page, target, fails))
                        /\ IF fails
                           THEN /\ lastRun' = Ran("runtime", "evaluate", target,
                                                  [success |-> FALSE, error |-> JStr(<<"E", "v", "a", "l", "u", "a", "t", "i", "o", "n", " ", "f", "a", "i", "l", "e", "d">>)])
                                /\ UNCHANGED <<lastInjectedPage, globals>>
                           ELSE /\ lastRun' = Ran("runtime", "evaluate", target,
                                                  [success |-> TRUE, value |-> Undefined])
                                /\ globals' = [globals EXCEPT ![target] = @ \cup {CoreScript}]
                                /\ lastInjectedPage' = page
     /\ UNCHANGED <<browser, currentPage, replaced>>
     /\ UNCHANGED outsideRuntime

\* invalidateRuntime()
invalidateRuntime ==
  /\ Len(injections) < MaxInjections
  /\ lastInjectedPage' = 0
  /\ injections' = Append(injections, [op |-> "invalidateRuntime"])
  /\ UNCHANGED cachedScript
  /\ UNCHANGED pageVars
  /\ UNCHANGED outsideRuntime

\* the user switches pages by index
RuntimeNext ==
  \/ Connect
  \/ \E index \in PageIndexes : SelectPageByIndex(index)
  \/ \E overCDP \in BOOLEAN, fails \in BOOLEAN : injectRuntime(overCDP, fails)
  \/ invalidateRuntime

RuntimeSpec == PageInit /\ [][RuntimeNext]_vars

(***************************************************************************)
(* Properties of the session dispatcher, checked under SessionSpec         *)
(***************************************************************************)
\* positions in the output of the responses to input line n
ResponsesTo(n) == {i \in 1..Len(output) : output[i].src = n}

RequestLines == {n \in 1..Len(lines) : lines[n].parsed.tag = "request"}

\* C1: the promise of start() resolves only after the input stream has closed
\* and every handler invocation has settled: it is never resolved while an
\* invocation is in flight.
C1_StartResolvesOnlyAfterDrain ==
  startPromise = "resolved" => (rl = "closed" /\ inflight = {})

\* C2: at the moment start() resolves, the output holds exactly one response
\* line for each request line that was read.
C2_AllResponsesWrittenAtCompletion ==
  [][(startPromise # "resolved" /\ startPromise' = "resolved")
       => \A n \in RequestLines' : Cardinality({i \in 1..Len(output') : output'[i].src = n}) = 1]_vars

\* C3: once stop() has been called, the completion signal of start() does not
\* fire while an invocation is in flight, and the responses of the invocations
\* that were in flight are written before it fires.
C3_StopWaitsForInFlight ==
  (stopCalled /\ startPromise = "resolved")
    => /\ inflight = {}
       /\ \A n \in RequestLines : lines[n].route = "dispatched" => ResponsesTo(n) # {}

RejectedInvocations == {x \in settled : ~x.outcome.ok}

\* the response the active protocol writes for a handler error
IsInternalErrorResponse(data, request, message) ==
  IF protocol = "repl"
  THEN data = <<"Error: ">> \o message
  ELSE /\ "error" \in DOMAIN data
       /\ data.error = [code |-> -32603, message |-> message]
       /\ data.id = (IF request.id = Undefined THEN JNull ELSE request.id)

\* C4: a handler that throws or rejects gets exactly one error response, with
\* code -32603 and the error's message; the step in which it fails neither
\* resolves start() nor closes the input nor ends the process, and while the
\* input is open a further line can still be dispatched.
C4_HandlerErrorBecomesOneErrorResponse ==
  /\ [](\A x \in RejectedInvocations :
          /\ Cardinality(ResponsesTo(x.n)) = 1
          /\ \A i \in ResponsesTo(x.n) :
               IsInternalErrorResponse(output[i].data, lines[x.n].parsed, x.outcome.message))
  /\ [][(\E x \in settled' : x \notin settled /\ ~x.outcome.ok)
          => (startPromise' = startPromise /\ rl' = rl /\ running' = running /\ alive' = alive)]_vars
  /\ []((RejectedInvocations # {} /\ escaped = {} /\ rl = "open" /\ Len(lines) < MaxLines)
          => ENABLED (\E raw \in Inputs : LineDispatched(raw)))

\* a handler failed, its error response is written, start() is still pending,
\* and a line that arrived after the failure has been dispatched
C4_Witness ==
  /\ startPromise = "pending"
  /\ \E x \in RejectedInvocations :
       /\ lines[x.n].handler.kind \in {"builtin", "custom"}
       /\ ResponsesTo(x.n) # {}
       /\ \E n \in RequestLines :
            /\ x.n \in lines[n].settledBefore
            /\ lines[n].route = "dispatched"
            /\ lines[n].handler.kind \in {"builtin", "custom"}

\* C5: a line that cannot be turned into a request is answered with a
\* formatted error or skipped; handling it never throws out of the dispatcher
\* and never ends the session.
C5_MalformedInputNeverEscapes ==
  \A n \in 1..Len(lines) :
    (lines[n].parsed.tag # "request" /\ lines[n].route # "local")
      => /\ n \notin escaped
         /\ alive
         /\ (lines[n].route = "skip" \/ Cardinality(ResponsesTo(n)) = 1)

\* C6: a request whose method is neither built in nor registered is answered
\* with method-not-found (-32601) and no handler is invoked for it.
C6_UnknownMethodIsNotFound ==
  \A n \in RequestLines :
    ~lines[n].known
      => /\ lines[n].route = "not-found"
         /\ n \notin {x.n : x \in settled} \cup {inv.n : inv \in inflight}
         /\ Cardinality(ResponsesTo(n)) = 1
         /\ protocol = "jsonrpc" =>
              \A i \in ResponsesTo(n) :
                "error" \in DOMAIN output[i].data /\ output[i].data.error.code = -32601

\* C7: in JSON-RPC mode every response to a dispatched request carries the id
\* of the request whose handling produced it (null when that request has no
\* id), whatever the order in which handlers complete.
C7_ResponseCarriesRequestId ==
  protocol = "jsonrpc" =>
    \A i \in 1..Len(output) :
      LET parsed == lines[output[i].src].parsed IN
      parsed.tag = "request" =>
        output[i].data.id = (IF parsed.id = Undefined THEN JNull ELSE parsed.id)

\* two requests with different ids were in flight together and the later one
\* was answered first
C7_Witness ==
  /\ protocol = "jsonrpc"
  /\ Len(output) = 2
  /\ output[1].src = 2
  /\ output[2].src = 1
  /\ lines[1].route = "dispatched"
  /\ lines[2].route = "dispatched"
  /\ 1 \notin lines[2].settledBefore
  /\ output[1].data.id # output[2].data.id
  /\ "result" \in DOMAIN output[1].data

(***************************************************************************)
(* Properties of connection resilience, checked under ConnSpec             *)
(***************************************************************************)
EventsAt(h, kind) == {i \in 1..Len(events) : events[i].e = kind /\ events[i].host = h}

\* C8: after an attempt fails with an error classified host-skip, that entry
\* of the host list is not attempted again, and the next entry, if there is
\* one, is attempted at once, with no sleep in between.
C8_HostSkipMovesToNextHost ==
  \A i \in 1..Len(events) :
    (events[i].e = "fail" /\ events[i].class = "host-skip")
      => /\ \A j \in (i + 1)..Len(events) : events[j].host # events[i].host
         /\ events[i].host < Len(hosts)
              => /\ i < Len(events)
                 /\ events[i + 1] = [e |-> "try", host |-> events[i].host + 1, n |-> 1]
         /\ events[i].host = Len(hosts) => (i = Len(events) /\ pc = "threw")

\* the first host was skipped on its first attempt although retries were
\* left, and the second host is being tried
C8_Witness ==
  /\ Len(events) >= 3
  /\ events[2].e = "fail"
  /\ events[2].class = "host-skip"
  /\ events[2].host = 1
  /\ retries >= 1
  /\ events[3].e = "try"
  /\ events[3].host = 2

RECURSIVE Pow2(_)
Pow2(k) == IF k = 0 THEN 1 ELSE 2 * Pow2(k - 1)

\* the procedure is done with host-list entry h, and every attempt on it
\* failed with a transient error
AllTransient(h) ==
  /\ h <= Len(hosts)
  /\ hostIndex > h \/ pc = "threw"
  /\ EventsAt(h, "fail") # {}
  /\ EventsAt(h, "ok") = {}
  /\ \A i \in EventsAt(h, "fail") : events[i].class = "transient"

\* every sleep follows a transient failure of attempt k <= retries and lasts
\* retryDelayMs * 2^(k-1), whatever the host; a host whose attempts all fail
\* with transient errors is attempted exactly retries + 1 times
BackoffSchedule ==
  /\ \A i \in 1..Len(events) :
       events[i].e = "sleep"
         => /\ i > 1
            /\ events[i - 1].e = "fail"
            /\ events[i - 1].class = "transient"
            /\ events[i - 1].host = events[i].host
            /\ events[i - 1].n <= retries
            /\ events[i].ms = initialDelay * Pow2(events[i - 1].n - 1)
  /\ \A h \in 1..Len(hosts) :
       AllTransient(h)
         => /\ Cardinality(EventsAt(h, "try")) = retries + 1
            /\ Cardinality(EventsAt(h, "sleep")) = retries

SleepsStrictlyIncrease ==
  \A h \in 1..Len(hosts) :
    \A i, j \in EventsAt(h, "sleep") : i < j => events[i].ms < events[j].ms

\* C9 as stated: the backoff schedule, with strictly increasing sleeps on
\* each host.
C9_BackoffStrictlyIncreasing == BackoffSchedule /\ SleepsStrictlyIncrease

\* C9 amended: the backoff schedule; the sleeps on a host are strictly
\* increasing when retryDelayMs is positive and are all 0 when it is 0.
C9_BackoffDoubles ==
  /\ BackoffSchedule
  /\ initialDelay > 0 => SleepsStrictlyIncrease
  /\ initialDelay = 0 => \A i \in 1..Len(events) : events[i].e = "sleep" => events[i].ms = 0

\* the first host used up its attempts on transient errors with at least two
\* sleeps, and the second host has slept once, again for retryDelayMs
C9_Witness ==
  /\ initialDelay > 0
  /\ AllTransient(1)
  /\ Cardinality(EventsAt(1, "sleep")) >= 2
  /\ \E i \in EventsAt(2, "sleep") : events[i].ms = initialDelay

\* C10: an attempt that fails with an error classified fatal is the last
\* attempt on any host, and the procedure rejects with that very error, not
\* with a ConnectionError.
C10_FatalAbortsWithUnderlyingError ==
  \A i \in 1..Len(events) :
    (events[i].e = "fail" /\ events[i].class = "fatal")
      => /\ i = Len(events)
         /\ pc = "threw"
         /\ outcome = [kind |-> "error", error |-> events[i].error]
         /\ outcome.error.class = "Error"

\* a fatal error on the second attempt of the first host, with retries and a
\* fallback host left untried
C10_Witness ==
  /\ pc = "threw"
  /\ Len(hosts) >= 2
  /\ hostIndex = 1
  /\ attempt = 1
  /\ attempt < retries
  /\ events[Len(events)].e = "fail"
  /\ events[Len(events)].class = "fatal"

\* the failed attempts in the order made, as the connect calls saw them
FailedAttempts == SelectSeq(events, LAMBDA ev : ev.e = "fail")

\* host:port, attempt number and underlying message of one failed attempt
AttemptLine(ev) ==
  <<hosts[ev.host], ":", ToString(options.port), " attempt ", ToString(ev.n), ": ">>
    \o ev.error.message

\* the procedure ended without a connection and without a fatal error
Exhausted ==
  /\ pc = "threw"
  /\ \A i \in 1..Len(events) : events[i].e = "fail" => events[i].class # "fatal"

\* C11: when every host is exhausted without a success and without a fatal
\* error, the procedure rejects with a ConnectionError whose message counts
\* and lists every failed attempt in the order made (host:port, attempt
\* number, underlying message), whose host and port are the primary host and
\* port, and whose retryable flag is true.
C11_ExhaustedRejectsWithSummary ==
  Exhausted =>
    /\ outcome.kind = "error"
    /\ outcome.error.class = "ConnectionError"
    /\ outcome.error.message =
         <<"Failed to connect after ", ToString(Len(FailedAttempts)), " attempts:\n  ">>
           \o join([i \in 1..Len(FailedAttempts) |-> AttemptLine(FailedAttempts[i])], <<"\n  ">>)
    /\ outcome.error.host = options.host
    /\ outcome.error.port = options.port
    /\ outcome.error.retryable = TRUE

\* both entries of a two-host list were used up, the fallback being another
\* host than the primary, with at least three failed attempts
C11_Witness ==
  /\ Exhausted
  /\ Len(hosts) = 2
  /\ hosts[2] # options.host
  /\ Len(FailedAttempts) >= 3
  /\ \E i \in 1..Len(FailedAttempts) : FailedAttempts[i].host = 1
  /\ FailedAttempts[Len(FailedAttempts)].host = 2

\* connect attempts made so far, on all hosts
TotalAttempts == Cardinality({i \in 1..Len(events) : events[i].e = "try"})

\* the procedure has returned a connection or thrown
ConnDone == pc \in {"returned", "threw"}

\* at most perHost attempts on every entry of the host list, and at most
\* perHost * (1 + number of fallback hosts) in all
WithinBudget(perHost) ==
  /\ TotalAttempts <= perHost * (1 + Len(options.fallbackHosts))
  /\ \A h \in 1..Len(hosts) : Cardinality(EventsAt(h, "try")) <= perHost

\* C12 as stated: the procedure terminates, and once called it stays within
\* retries + 1 attempts per host-list entry.
C12_BudgetRetriesPlusOne ==
  /\ <>ConnDone
  /\ [](pc # "idle" => WithinBudget(retries + 1))

\* C12 amended: the procedure terminates, and it stays within
\* max(0, retries + 1) attempts per host-list entry: with a negative retries
\* it makes no attempt at all.
C12_TerminatesWithinBudget ==
  /\ <>ConnDone
  /\ [](WithinBudget(IF retries + 1 > 0 THEN retries + 1 ELSE 0))

\* the whole budget of a two-host list was used, with retries on each host
C12_Witness ==
  /\ pc = "threw"
  /\ Len(hosts) = 2
  /\ retries >= 1
  /\ TotalAttempts = (retries + 1) * 2

(***************************************************************************)
(* Properties of the nREPL server, checked under FramingSpec and NreplSpec *)
(***************************************************************************)
\* the requests handled for socket c, in the order handleMessage was called
RequestsOf(c) == SelectSeq(requests, LAMBDA r : r.conn = c)

\* length in bytes of the first n messages the client of socket c wrote
RECURSIVE WrittenBytes(_, _)
WrittenBytes(c, n) == IF n = 0 THEN 0 ELSE WrittenBytes(c, n - 1) + Len(written[c][n])

\* bytes of socket c that have arrived in data events
Arrived(c) == WrittenBytes(c, Len(written[c])) - Len(wire[c])

\* how many of the client's messages have arrived completely
CompleteArrived(c) ==
  Cardinality({n \in 1..Len(written[c]) : WrittenBytes(c, n) <= Arrived(c)})

\* C13: whatever the chunks, the messages decoded for a socket are exactly
\* the client's messages that have arrived completely, once each and in the
\* order written, and the buffer keeps nothing of them: a message that
\* arrived in two chunks is decoded once, when its second chunk arrives, and
\* two messages in one chunk are decoded as two.
C13_FramingYieldsEachMessageOnce ==
  \A c \in Conns :
    LET n == CompleteArrived(c) IN
    /\ Len(RequestsOf(c)) = n
    /\ \A i \in 1..n :
         RequestsOf(c)[i].msg = ToNreplMessage(BencodeDecode(written[c][i]).value)
    /\ Len(buffer[c]) = Arrived(c) - WrittenBytes(c, n)

\* one message arrived in exactly two chunks and was decoded, once
C13_Witness ==
  /\ Len(written[1]) = 1
  /\ chunks[1] = 2
  /\ wire[1] = <<>>
  /\ buffer[1] = <<>>
  /\ Len(requests) = 1

\* two messages arrived in one chunk and were decoded, as two
C13_TwoInOneChunk ==
  /\ Len(written[1]) = 2
  /\ chunks[1] = 1
  /\ wire[1] = <<>>
  /\ Len(requests) = 2
  /\ requests[1].msg # requests[2].msg

\* what was written to the sockets for request n, in order
SentFor(n) == SelectSeq(socketOut, LAMBDA out : out.req = n)

\* a message as the client reads it from the socket
OnWire(out) == BencodeDecode(out.data).value.v

HasField(out, key) == \E i \in 1..Len(OnWire(out)) : OnWire(out)[i][1] = key

Field(out, key) == MsgGet(OnWire(out), key)

\* a status list as the client reads it
WireStatus(words) == BList([i \in 1..Len(words) |-> BBuf(words[i])])

\* a field of a request as the client reads it in a reply
WireValue(v) == IF v.t = "string" THEN BBuf(v.v) ELSE v

EvalRequests == {n \in 1..Len(requests) : requests[n].handler = [kind |-> "op", name |-> <<"e", "v", "a", "l">>]}

\* C14: an eval request whose evaluation has ended, with success or not, has
\* been answered with exactly two messages: first one with value and ns or
\* one with err (and no status), then {status: ["done"]}, which is the last;
\* nothing is sent for it while the evaluation is awaited.
C14_EvalAnswersThenDone ==
  \A n \in EvalRequests :
    LET sent == SentFor(n) IN
    IF n \in evaluating THEN sent = <<>>
    ELSE /\ Len(sent) = 2
         /\ sent[1].conn = requests[n].conn /\ sent[2].conn = requests[n].conn
         /\ \/ HasField(sent[1], <<"v", "a", "l", "u", "e">>) /\ HasField(sent[1], <<"n", "s">>) /\ ~HasField(sent[1], <<"e", "r", "r">>)
            \/ HasField(sent[1], <<"e", "r", "r">>) /\ ~HasField(sent[1], <<"v", "a", "l", "u", "e">>)
         /\ ~HasField(sent[1], <<"s", "t", "a", "t", "u", "s">>)
         /\ Field(sent[2], <<"s", "t", "a", "t", "u", "s">>) = WireStatus(<<<<"d", "o", "n", "e">>>>)
         /\ ~HasField(sent[2], <<"v", "a", "l", "u", "e">>) /\ ~HasField(sent[2], <<"e", "r", "r">>)

\* an evaluation failed and one succeeded, and both were answered
C14_Witness ==
  /\ \E n \in EvalRequests : n \notin evaluating /\ HasField(SentFor(n)[1], <<"e", "r", "r">>)
  /\ \E n \in EvalRequests : n \notin evaluating /\ HasField(SentFor(n)[1], <<"v", "a", "l", "u", "e">>)

\* C15: every message written to a socket carries the id and the session of
\* the request it answers (and neither when the request has none), and goes
\* to the socket the request came from.
C15_RepliesCarryIdAndSession ==
  \A i \in 1..Len(socketOut) :
    LET out == socketOut[i]
        msg == requests[out.req].msg
    IN /\ out.conn = requests[out.req].conn
       /\ Field(out, <<"i", "d">>) = WireValue(MsgGet(msg, <<"i", "d">>))
       /\ Field(out, <<"s", "e", "s", "s", "i", "o", "n">>) = WireValue(MsgGet(msg, <<"s", "e", "s", "s", "i", "o", "n">>))

\* C16: a request whose op is not clone, close, describe or eval, or that
\* has no op, runs no handler and is answered with exactly one message, of
\* status ["error", "unknown-op", "done"].
C16_UnknownOpAnswered ==
  \A n \in 1..Len(requests) :
    PropertyKey(MsgGet(requests[n].msg, <<"o", "p">>)) \notin OpNames
      => /\ requests[n].handler.kind = "undefined"
         /\ Len(SentFor(n)) = 1
         /\ Field(SentFor(n)[1], <<"s", "t", "a", "t", "u", "s">>) = WireStatus(<<<<"e", "r", "r", "o", "r">>, <<"u", "n", "k", "n", "o", "w", "n", "-", "o", "p">>, <<"d", "o", "n", "e">>>>)

\* the session table after the first n requests, as clone and close are
\* described: clone adds the id it returns, close removes the id it names
RECURSIVE TableAfter(_)
TableAfter(n) ==
  IF n = 0 THEN {}
  ELSE LET r == requests[n]
           sid == MsgGet(r.msg, <<"s", "e", "s", "s", "i", "o", "n">>)
       IN CASE r.handler = [kind |-> "op", name |-> <<"c", "l", "o", "n", "e">>] -> TableAfter(n - 1) \cup {r.created}
            [] r.handler = [kind |-> "op", name |-> <<"c", "l", "o", "s", "e">>] ->
                 IF sid.t = "string" THEN TableAfter(n - 1) \ {sid.v} ELSE TableAfter(n - 1)
            [] OTHER -> TableAfter(n - 1)

CloneRequests == {n \in 1..Len(requests) : requests[n].handler = [kind |-> "op", name |-> <<"c", "l", "o", "n", "e">>]}

CloseRequests == {n \in 1..Len(requests) : requests[n].handler = [kind |-> "op", name |-> <<"c", "l", "o", "s", "e">>]}

\* C17: the table of the server holds exactly the ids returned by clone and
\* not named in a close since, whatever sockets the ops came from; the id a
\* clone returns as new-session was not in the table before; every close,
\* also one that names an unknown id or none, is answered with done.
C17_SessionTableTracksCloneAndClose ==
  /\ sessions = TableAfter(Len(requests))
  /\ \A n \in CloneRequests :
       /\ requests[n].created \notin TableAfter(n - 1)
       /\ Len(SentFor(n)) = 1
       /\ Field(SentFor(n)[1], <<"n", "e", "w", "-", "s", "e", "s", "s", "i", "o", "n">>) = BBuf(requests[n].created)
       /\ Field(SentFor(n)[1], <<"s", "t", "a", "t", "u", "s">>) = WireStatus(<<<<"d", "o", "n", "e">>>>)
  /\ \A n \in CloseRequests :
       /\ Len(SentFor(n)) = 1
       /\ Field(SentFor(n)[1], <<"s", "t", "a", "t", "u", "s">>) = WireStatus(<<<<"d", "o", "n", "e">>>>)

\* a session was cloned on one socket and its id returned; a close from the
\* other socket named it, and the table is empty again
C17_Witness ==
  /\ \E m \in CloneRequests, n \in CloseRequests :
       /\ m < n
       /\ requests[m].conn = 1
       /\ requests[n].conn = 2
       /\ MsgGet(requests[n].msg, <<"s", "e", "s", "s", "i", "o", "n">>) = JStr(requests[m].created)
       /\ Field(SentFor(m)[1], <<"n", "e", "w", "-", "s", "e", "s", "s", "i", "o", "n">>) = BBuf(requests[m].created)
  /\ sessions = {}

(***************************************************************************)
(* Properties of JsonRpcProtocol, checked under JsonRpcSpec                *)
(***************************************************************************)
\* the first check of parse that the line fails, from how the line was
\* put together
FirstFailure(input) ==
  CASE input.kind = "blank" -> "blank"
    [] input.kind = "malformed" -> "json"
    [] input.kind = "not-object" -> "object"
    [] input.kind = "object" ->
         IF ~input.jsonrpc.valid THEN "jsonrpc"
         ELSE IF ~input.method.valid THEN "method"
         ELSE IF ~input.params.valid THEN "params"
         ELSE "none"

IsErrorWith(parsed, code) == parsed.tag = "error" /\ parsed.kind = "protocol-error" /\ parsed.code = code

\* C18: parse reports the first failing check only, in the order blank line
\* (null), invalid JSON (-32700), not a non-array object (-32600), jsonrpc
\* other than "2.0" (-32600), missing, empty or non-string method (-32600),
\* params present but not a non-array object (-32602); a line that fails
\* none of them is a request.
C18_ParseReportsFirstFailure ==
  rpcParsed # NotCalled =>
    LET failure == FirstFailure(rpcInput)
    IN CASE failure = "blank" -> rpcParsed = ParsedNull
         [] failure = "json" -> IsErrorWith(rpcParsed, -32700)
         [] failure \in {"object", "jsonrpc", "method"} -> IsErrorWith(rpcParsed, -32600)
         [] failure = "params" -> IsErrorWith(rpcParsed, -32602)
         [] failure = "none" -> rpcParsed.tag = "request"

\* a line without a method and with params that is an array has been parsed
C18_Witness ==
  /\ rpcInput.kind = "object"
  /\ rpcInput.jsonrpc.valid /\ ~rpcInput.method.valid /\ ~rpcInput.params.valid
  /\ IsErrorWith(rpcParsed, -32600)

\* C19: for an object line without a valid jsonrpc member or without a
\* valid method, the error has code -32600 and the id of the line, whatever
\* value that is, and no id when the line has none.
C19_InvalidRequestKeepsId ==
  (rpcParsed # NotCalled /\ rpcInput.kind = "object"
     /\ (~rpcInput.jsonrpc.valid \/ ~rpcInput.method.valid)) =>
    /\ IsErrorWith(rpcParsed, -32600)
    /\ rpcParsed.id = rpcInput.id.value

\* a line with jsonrpc "2.0", an object as id and no method has been parsed
C19_Witness ==
  /\ rpcInput.kind = "object"
  /\ rpcInput.jsonrpc.valid /\ rpcInput.method.value = Undefined
  /\ rpcInput.id.value.t = "object"
  /\ IsErrorWith(rpcParsed, -32600)
  /\ rpcParsed.id = rpcInput.id.value

\* a line without jsonrpc and without id has been parsed
C19_WitnessNoId ==
  /\ rpcInput.kind = "object"
  /\ rpcInput.jsonrpc.value = Undefined /\ rpcInput.id.value = Undefined
  /\ IsErrorWith(rpcParsed, -32600)
  /\ rpcParsed.id = Undefined

\* C20: what the client parses from formatResult(request, v) is an object
\* whose result equals v, or null when v is undefined, and whose id equals
\* request.id, or null when the request has no id.
C20_FormatResultRoundTrip ==
  rpcRead # NotCalled =>
    /\ rpcRead.doc.ok
    /\ rpcRead.doc.value.t = "object"
    /\ LET response == FromJson(rpcRead.doc.value).v
       IN /\ DOMAIN response = {"jsonrpc", "id", "result"}
          /\ response["result"] = (IF rpcValue = Undefined THEN JNull ELSE FromJson(rpcValue))
          /\ response["id"] = (IF rpcParsed.id = Undefined THEN JNull ELSE FromJson(rpcParsed.id))

\* a result with quotes in a key and in a string has made the round trip,
\* for a request without id
C20_Witness ==
  /\ rpcRead # NotCalled
  /\ rpcParsed.id = Undefined
  /\ rpcValue.t = "object" /\ Len(rpcValue.v) = 2
  /\ rpcValue.v[1][2] = JStr(<<"s", "a", "y", " ", "\"", "h", "i", "\"">>)

\* undefined has made the round trip, for a request whose id is a string
C20_WitnessUndefined ==
  /\ rpcRead # NotCalled
  /\ rpcValue = Undefined
  /\ rpcParsed.id = JStr(<<"a">>)

(***************************************************************************)
(* Properties of ReplProtocol, checked under ReplSpec                      *)
(***************************************************************************)
Parsed(kind) == replLast # NotCalled /\ replLast.op = "parse" /\ replLast.input.kind = kind

\* C21: for a dot-command whose name is in neither table, parse returns a
\* ProtocolError whose message contains the command name (names are
\* case-insensitive) and the .help hint.
C21_UnknownCommandIsProtocolError ==
  (Parsed("unknown") /\ replLast.input.name # <<>>) =>
    /\ isProtocolError(replLast.result)
    /\ includes(replLast.result.message, toLowerCase(replLast.input.name))
    /\ includes(replLast.result.message, <<".", "h", "e", "l", "p">>)


\* the lines of the session's input that name a local command
IsLocalLine(raw) == protocol = "repl" /\ raw \in {<<".", "h", "e", "l", "p">>, <<".", "E", "X", "I", "T">>}

C22_WitnessSession ==
  /\ protocol = "repl"
  /\ \E n \in 1..Len(lines) : lines[n].raw = <<".", "E", "X", "I", "T">> /\ lines[n].route = "local"

\* C23: every value parse returns that is neither null nor a ProtocolError
\* is a Request: method is a non-empty string and params is a mapping.
C23_ParsedRequestIsWellFormed ==
  /\ (replLast # NotCalled /\ replLast.op = "parse" /\ replLast.result.tag \notin {"null", "error", "throw"}) =>
       /\ replLast.result.shape = "Request"
       /\ replLast.result.method # <<>>
       /\ replLast.result.params # Undefined
  /\ rpcParsed.tag = "request" =>
       /\ rpcParsed.method # <<>>
       /\ rpcInput.method.value = JStr(rpcParsed.method)
       /\ rpcInput.params.value.t \in {"undefined", "object"}

\* the ReplProtocol part for the lines that name a command of a table or none
C23_ReplRequestsOfKnownCommands ==
  (replLast # NotCalled /\ replLast.op = "parse" /\ replLast.input.kind # "unknown"
     /\ replLast.result.tag = "request") =>
       /\ replLast.result.shape = "Request"
       /\ replLast.result.method # <<>>
       /\ replLast.result.params # Undefined

\* C24: lastInjectRef is null while no inject command with an argument has
\* been parsed, and otherwise the trimmed argument of the last such
\* command; no other call changes it.
C24_LastInjectRefTracksInject == lastInjectRef = replInjected

\* after .inject with an argument, an inject command without argument and
\* a line that is not an inject command leave the reference in place
C24_Witness ==
  /\ replLast # NotCalled /\ replLast.op = "parse"
  /\ replLast.input.kind = "inject" /\ replLast.input.arg = <<>>
  /\ lastInjectRef = JStr(<<"b", " ", "c">>)


(***************************************************************************)
(* Properties of Session.register, checked under RegisterSpec              *)
(***************************************************************************)
\* the line read in this step is a request for a method that has been
\* registered or is a built-in
RequestArrives ==
  /\ Len(lines') = Len(lines) + 1
  /\ lines'[Len(lines')].parsed.tag = "request"
  /\ \/ Registrations(lines'[Len(lines')].parsed.method) # <<>>
     \/ lines'[Len(lines')].parsed.method \in BuiltinNames

\* the handler the claim names for method m
HandlerFor(m) ==
  LET calls == Registrations(m)
  IN IF calls # <<>> THEN CustomHandler(calls[Len(calls)]) ELSE BuiltinHandler(m)

\* C25: a request for method m is dispatched to the handler of the most
\* recent register(m, handler) call, or to the built-in for m when there
\* was none; registering the name of a built-in replaces it.
C25_LastRegistrationWins ==
  [][RequestArrives =>
       LET n == Len(lines')
           m == lines'[n].parsed.method
       IN /\ lines'[n].route = "dispatched"
          /\ lines'[n].handler = HandlerFor(m)
          /\ \E inv \in inflight' : inv.n = n /\ inv.handler = HandlerFor(m)]_vars

\* eval was registered twice and a request for eval went to the second handler
C25_Witness ==
  /\ Registrations(<<"e", "v", "a", "l">>) = <<"custom1", "custom2">>
  /\ \E n \in 1..Len(lines) :
       /\ lines[n].parsed.tag = "request" /\ lines[n].parsed.method = <<"e", "v", "a", "l">>
       /\ lines[n].handler = CustomHandler("custom2")


(***************************************************************************)
(* Properties of a session's start and end, checked under PromptSpec and   *)
(* SessionSpec                                                             *)
(***************************************************************************)
\* the input stream has closed and no line had arrived
ClosedWithoutLines == rl = "closed" /\ ~stopCalled /\ lines = <<>>

\* C26 as stated: if the input closes before any line arrives, start() has
\* resolved, no handler has been invoked and nothing has been written to
\* the output.
C26_NoLinesNothingWritten ==
  ClosedWithoutLines =>
    /\ startPromise = "resolved"
    /\ inflight = {} /\ settled = {}
    /\ output = <<>> /\ ~prompted

\* C26, amended: if the input closes before any line arrives, start() has
\* resolved, no handler has been invoked, and nothing has been written to
\* the output except the prompt of a session that was given one.
C26_NoLinesNoResponses ==
  ClosedWithoutLines =>
    /\ startPromise = "resolved"
    /\ inflight = {} /\ settled = {}
    /\ output = <<>>
    /\ prompted = prompt

\* the input of a session without prompt has closed before any line
C26_Witness == ClosedWithoutLines /\ ~prompt /\ startPromise = "resolved"


\* the line read in this step was dispatched to a handler that was invoked
Dispatches ==
  /\ Len(lines') = Len(lines) + 1
  /\ lines'[Len(lines')].route = "dispatched"
  /\ ~ThrowsSynchronously(lines'[Len(lines')].handler)

\* C27: a line's handler is invoked when the line arrives, whatever is in
\* flight, and the invocations in flight stay in flight; a response is
\* written when its handler settles, after everything written before, so
\* the output is in completion order.
C27_DispatchIsNotSerialized ==
  [][/\ Dispatches =>
          /\ \E inv \in inflight' : inv.n = Len(lines')
          /\ inflight \subseteq inflight'
     /\ \A inv \in inflight :
          inv \notin inflight' =>
            \/ output' = output
            \/ /\ Len(output') = Len(output) + 1
               /\ SubSeq(output', 1, Len(output)) = output
               /\ output'[Len(output')].src = inv.n]_vars

\* the response to the second line was written before the response to the first
C27_Witness ==
  /\ Len(output) = 2
  /\ output[1].src = 2 /\ output[2].src = 1
  /\ lines[1].route = "dispatched" /\ lines[2].route = "dispatched"

\* two handler invocations are in flight
C27_WitnessTwoInFlight == Cardinality(inflight) = 2


(***************************************************************************)
(* Properties of the nREPL discovery file, checked under PortSpec.         *)
(***************************************************************************)

\* the servers of this process other than s that have used the directory of s
Neighbours(s) ==
  {t \in 1..MaxServers \ {s} : servers[t] # NotStarted /\ servers[t].cwd = servers[s].cwd}

\* C28: from the moment startNreplServer resolves until close() of that
\* server is called, .nrepl-port in the server's working directory exists
\* and contains the decimal port the server listens on; once close() has
\* been called the file no longer exists.
C28_DiscoveryFileWhileRunning ==
  \A s \in 1..MaxServers :
    /\ servers[s].state = "listening" => files[servers[s].cwd] = File(NatDigits(servers[s].port))
    /\ servers[s].state = "closed" => files[servers[s].cwd] = NoFile

\* C28 for a server that has its working directory to itself
C28_DiscoveryFileOfOnlyServer ==
  \A s \in 1..MaxServers :
    servers[s] # NotStarted /\ Neighbours(s) = {} =>
      /\ servers[s].state = "listening" => files[servers[s].cwd] = File(NatDigits(servers[s].port))
      /\ servers[s].state = "closed" => files[servers[s].cwd] = NoFile


(***************************************************************************)
(* Properties of the current page of a ChromeConnection, checked under     *)
(* PageSpec.                                                               *)
(***************************************************************************)

\* the last call reached a page after a select had changed the current page
RanAfterSwitch(ops) ==
  /\ lastRun # NotCalled
  /\ lastRun.op \in ops
  /\ lastRun.previous # {}
  /\ lastRun.selected # 0

\* C30: after selectPage or selectPageByIndex has succeeded and changed the
\* current page, every later evaluate and injectScript on the connection,
\* from the REPL or from nREPL, runs in the newly selected page and not in
\* one selected before.
C30_RunsInSelectedPage ==
  RanAfterSwitch({"evaluate", "evaluateOverCDP", "injectScript"}) => lastRun.page = lastRun.selected

\* C30 for the evaluate of connection.ts, which goes to this.currentPage
C30_PageEvaluateRunsInSelectedPage ==
  RanAfterSwitch({"evaluate"}) => lastRun.page = lastRun.selected


(***************************************************************************)
(* Properties of the eval op beside clone and close, checked under         *)
(* EvalSpec.                                                               *)
(***************************************************************************)

\* the last two eval requests had the same code and met the same browser state
SameQuestion ==
  /\ observed.prev # NotCalled
  /\ observed.prev.code = observed.last.code
  /\ observed.prev.browser = observed.last.browser

\* C29: clone and close never affect evaluation: for the same code and the
\* same browser state an eval request produces the same value or err
\* message and the same done message, whether its session id is in the
\* session table, has been closed, was never cloned, or is absent.
C29_SessionsDoNotAffectEval ==
  SameQuestion => observed.prev.responses = observed.last.responses

\* the same code evaluated to a value under an id in the table and then under that id closed
C29_Witness ==
  /\ SameQuestion
  /\ observed.prev.standing = "in table" /\ observed.last.standing = "closed"
  /\ \E i \in 1..Len(observed.last.responses[1]) : observed.last.responses[1][i][1] = <<"v", "a", "l", "u", "e">>

\* the same code evaluated without session and then under an id that was never cloned
C29_WitnessNeverCloned ==
  /\ SameQuestion
  /\ observed.prev.standing = "absent" /\ observed.last.standing = "never cloned"


\* the request C32 expects for bare text
EvalRequestOf(text) ==
  ParsedRequest(Undefined, <<"e", "v", "a", "l">>,
                [k \in {"code", "lang"} |-> IF k = "code" THEN JStr(trim(text)) ELSE JStr(lang)])

CommandRequestOf(name, arg) ==
  CASE name \in {<<"t", "a", "b", "s">>, <<"t">>, <<"p", "a", "g", "e", "s">>} -> ParsedRequest(Undefined, <<"t", "a", "b", "s">>, EmptyObject)
    [] name \in {<<"t", "a", "b">>, <<"s", "e", "l", "e", "c", "t">>} ->
         ParsedRequest(Undefined, <<"s", "e", "l", "e", "c", "t", "T", "a", "b">>, [k \in {"pattern"} |-> JStr(arg)])
    [] name \in {<<"i", "n", "j", "e", "c", "t">>, <<"i">>, <<"l", "o", "a", "d">>} ->
         ParsedRequest(Undefined, <<"i", "n", "j", "e", "c", "t">>, [k \in {"ref"} |-> JStr(arg)])
    [] name \in {<<"r", "e", "l", "o", "a", "d">>, <<"r">>} -> ParsedRequest(Undefined, <<"r", "e", "l", "o", "a", "d">>, EmptyObject)

\* C33: each dispatchable command and each of its aliases, in any letter
\* case, yields the same request: tabs, t, pages give tabs with empty
\* params; tab, select give selectTab with params.pattern the trimmed
\* remainder; inject, i, load give inject with params.ref the trimmed
\* remainder; reload, r give reload with empty params.
C33_AliasesYieldTheSameRequest ==
  (Parsed("dispatch") \/ Parsed("inject")) =>
    replLast.result = CommandRequestOf(toLowerCase(replLast.input.name), replLast.input.arg)

\* an alias typed with a capital and followed by a padded remainder was parsed
C33_Witness ==
  /\ Parsed("dispatch")
  /\ replLast.input.name = <<"S", "e", "l", "e", "c", "t">>
  /\ replLast.input.arg = <<"i", "n", "j", "e", "c", "t", " ", " ", "x">>
  /\ replLast.result.method = <<"s", "e", "l", "e", "c", "t", "T", "a", "b">>


\* the positions of events at which an attempt starts
Tries == {i \in 1..Len(events) : events[i].e = "try"}

\* the attempt that started at position i has ended by position j
EndedBy(i, j) ==
  \E k \in (i + 1)..(j - 1) :
    /\ events[k].e \in {"fail", "ok"}
    /\ events[k].host = events[i].host /\ events[k].n = events[i].n

\* C37: connectWithResilience tries the hosts strictly in the order
\* [primary, ...fallbacks]: no attempt on a later host happens before the
\* attempts on every earlier host have ended, no earlier host is revisited,
\* and the first successful attempt ends the procedure, returning the
\* connection to that host with no further attempt or sleep.
C37_HostsTriedInOrder ==
  /\ \A i, j \in Tries : i < j => events[i].host <= events[j].host /\ EndedBy(i, j)
  /\ \A j \in Tries : \A h \in 1..(events[j].host - 1) : \E i \in Tries : i < j /\ events[i].host = h
  /\ \A i \in 1..Len(events) :
       events[i].e = "ok" =>
         /\ i = Len(events)
         /\ events[i - 1] = [e |-> "try", host |-> events[i].host, n |-> events[i].n]
         /\ pc = "returned"
         /\ outcome = [kind |-> "connection", host |-> hosts[events[i].host], port |-> options.port]

\* the first host was retried and failed, and the second host answered at once
C37_Witness ==
  /\ pc = "returned"
  /\ Len(hosts) = 2
  /\ outcome.host = hosts[2]
  /\ \E i \in Tries : events[i].host = 1 /\ events[i].n = 2
  /\ events[Len(events)] = [e |-> "ok", host |-> 2, n |-> 1]


(***************************************************************************)
(* Properties of classifyConnectError, checked under ClassifySpec.         *)
(***************************************************************************)

\* C40: classifyConnectError is total and deterministic: every error value
\* maps to exactly one of host-skip, transient, fatal by case-insensitive
\* substring match on its message; a message with a host-skip marker
\* (eperm, econnrefused) is host-skip also when it has a transient marker
\* (timeout, econnreset, enotfound, ehostunreach); a message with none of
\* the markers is fatal.
C40_ClassificationByMarkers ==
  classification # "unclassified" =>
    classification =
      (IF thrown.markers \cap HostSkipMarkers # {} THEN "host-skip"
       ELSE IF thrown.markers \cap TransientMarkers # {} THEN "transient"
       ELSE "fatal")

\* C40, determinism: classifying the same value again gives the same class
C40_ClassifiedAgainTheSame ==
  [][classification # "unclassified" => classification' = classification]_vars

\* a message with a transient marker in upper case before a host-skip marker was classified
C40_Witness ==
  /\ classification = "host-skip"
  /\ thrown.markers = {<<"t", "i", "m", "e", "o", "u", "t">>, <<"e", "p", "e", "r", "m">>}
  /\ thrown.value = [class |-> "Error", message |-> <<"T", "I", "M", "E", "O", "U", "T", ":", " ", "e", "p", "e", "r", "m">>]


\* the lines parse rejected with a ProtocolError that carries an id
RejectedWithId ==
  {n \in 1..Len(lines) :
     /\ protocol = "jsonrpc"
     /\ lines[n].route = "protocol-error"
     /\ lines[n].parsed.id # Undefined}

\* C39: when a line is rejected by parse with a ProtocolError that carries
\* an id (invalid jsonrpc, missing method, or invalid params in an envelope
\* that has an id), the error response the session writes for that line
\* carries that same id, not null.
C39_ProtocolErrorResponseKeepsId ==
  \A n \in RejectedWithId :
    \A k \in 1..Len(output) :
      output[k].src = n => output[k].data.id = lines[n].parsed.id


\* the bytes of the messages the client of socket c wrote after its first k
Remaining(c, k) == join(SubSeq(written[c], k + 1, Len(written[c])), <<>>)

\* the buffer of socket c, with what is still to arrive, starts where one of
\* the client's messages starts (or is empty, at the end of the last one)
AtMessageBoundary(c) ==
  \E k \in 0..Len(written[c]) : buffer[c] \o wire[c] = Remaining(c, k)

\* C35: after each successful decode the prefix removed from the
\* connection's buffer is exactly the bytes of the message just decoded, so
\* the buffer always begins at a message boundary, for every valid bencoded
\* dictionary a client can send (not only canonically encoded ones) and for
\* every way the byte stream is split into chunks.
C35_BufferBeginsAtMessageBoundary ==
  \A c \in Conns :
    /\ AtMessageBoundary(c)
    /\ Len(buffer[c]) = Arrived(c) - WrittenBytes(c, Len(RequestsOf(c)))


(***************************************************************************)
(* Properties of a connection that received junk, checked under JunkSpec   *)
(***************************************************************************)
\* the junk byte of connection c has arrived at the server: some write of the
\* client was the junk byte and the network has delivered it
JunkArrived(c) ==
  \E i \in 1..Len(written[c]) : written[c][i] = Junk /\ WrittenBytes(c, i) <= Arrived(c)

\* what the server has written to the socket of connection c
SentOn(c) == SelectSeq(socketOut, LAMBDA out : out.conn = c)

\* the client of connection d has written no junk, a chunk of it arrives, and
\* the server decodes every message written so far and answers every request
\* that does not wait for an evaluation
AnsweredOnArrival(d) ==
  (chunks'[d] > chunks[d] /\ \A i \in 1..Len(written[d]) : written[d][i] # Junk)
    => /\ Len(RequestsOf(d)') = Len(written[d])
       /\ \A n \in (Len(requests) + 1)..Len(requests') :
            n \in evaluating' \/ \E i \in 1..Len(socketOut') :
                                   socketOut'[i].conn = d /\ socketOut'[i].req = n

\* C36 as stated: once junk has arrived on a connection, the server decodes
\* no later message from it and writes nothing more to its socket, while the
\* other connection is still answered.
C36_NothingSentAfterJunk ==
  [][\A c \in Conns :
       JunkArrived(c) =>
         /\ RequestsOf(c)' = RequestsOf(c)
         /\ SentOn(c)' = SentOn(c)
         /\ \A d \in Conns \ {c} : AnsweredOnArrival(d)]_vars

\* C36, amended: once junk has arrived on a connection, the junk stays at the
\* front of its buffer, the server decodes no later message from it, and what
\* it still writes to that socket answers a request decoded before the junk
\* (an evaluation that was pending); the other connection is still answered.
C36_NothingDecodedAfterJunk ==
  [][\A c \in Conns :
       JunkArrived(c) =>
         /\ buffer[c] # <<>> /\ buffer[c][1] = Junk[1]
         /\ buffer'[c] # <<>> /\ buffer'[c][1] = Junk[1]
         /\ RequestsOf(c)' = RequestsOf(c)
         /\ \A i \in (Len(socketOut) + 1)..Len(socketOut') :
              socketOut'[i].conn = c => socketOut'[i].req \in evaluating
         /\ \A d \in Conns \ {c} : AnsweredOnArrival(d)]_vars

\* junk arrived on connection 1 and a complete message after it, nothing of
\* which was decoded, while the request of connection 2 was answered
C36_Witness ==
  /\ JunkArrived(1)
  /\ wire[1] = <<>>
  /\ written[1][Len(written[1])] = <<"d", "2", ":", "o", "p", "8", ":", "d", "e", "s", "c", "r", "i", "b", "e", "e">>
  /\ RequestsOf(1) = <<>>
  /\ SentOn(1) = <<>>
  /\ Len(RequestsOf(2)) = 1
  /\ SentOn(2) # <<>>


(***************************************************************************)
(* Properties of the built-in eval methods, checked under MethodSpec       *)
(***************************************************************************)
\* the params eval works on: cljs-eval sets lang to "cljs"
GivenLang ==
  IF invoked.name = <<"c", "l", "j", "s", "-", "e", "v", "a", "l">> THEN JStr(<<"c", "l", "j", "s">>) ELSE Get(invoked.params, "lang")

GivenCode == Get(invoked.params, "code")

\* code is missing or empty
NoCode == GivenCode \in {Undefined, JNull, JStr(<<>>), JArr(<<>>)}

\* the one call made is of this evaluator, a code that is a string is passed
\* as it is, and the promise follows the result of the evaluator
OneCallOf(evaluator) ==
  /\ Len(evaluatorCalls) = 1
  /\ evaluatorCalls[1].evaluator = evaluator
  /\ GivenCode.t = "string" => evaluatorCalls[1].code = GivenCode.v
  /\ LET result == evaluatorCalls[1].result
     IN CASE result = Pending -> returned = Pending
          [] "threw" \in DOMAIN result -> returned = Reject(result.threw)
          [] OTHER -> returned = IF result.success THEN Resolve(result.value)
                                 ELSE Reject(result.error)

NoCallAndRejected == evaluatorCalls = <<>> /\ returned # Pending /\ ~returned.ok

\* C34 as stated: the ClojureScript evaluator alone is called when lang is
\* "cljs", the JavaScript evaluator alone when lang is omitted (or null) or
\* "js"; no evaluator is called and the call is rejected when code is missing
\* or empty or lang is any other value; a result with success false becomes
\* a rejection with its error; cljs-eval is eval with lang "cljs".
C34_RoutedByLangValue ==
  invoked # NotCalled =>
    IF NoCode THEN NoCallAndRejected
    ELSE IF GivenLang = JStr(<<"c", "l", "j", "s">>) THEN OneCallOf("evaluateCljs")
    ELSE IF GivenLang \in {Undefined, JNull, JStr(<<"j", "s">>)} THEN OneCallOf("evaluate")
    ELSE NoCallAndRejected

\* String(lang) for the values of lang that are sent, "js" when it is absent
\* or null
LangText ==
  CASE GivenLang \in {Undefined, JNull} -> <<"j", "s">>
    [] GivenLang.t = "string" -> GivenLang.v
    [] GivenLang = JNum(7) -> <<"7">>
    [] GivenLang = JArr(<<JStr(<<"c", "l", "j", "s">>)>>) -> <<"c", "l", "j", "s">>
    [] GivenLang = JArr(<<JStr(<<"j", "s">>)>>) -> <<"j", "s">>

\* C34, amended: the evaluator is chosen by the text of lang, String(lang):
\* the ClojureScript evaluator alone when it is "cljs", the JavaScript
\* evaluator alone when lang is absent or null or its text is "js"; no
\* evaluator is called and the call is rejected when code is missing or its
\* text is empty or the text of lang is anything else; a result with success
\* false becomes a rejection with its error; cljs-eval is eval with lang
\* "cljs".
C34_RoutedByLangText ==
  invoked # NotCalled =>
    IF NoCode THEN NoCallAndRejected
    ELSE IF LangText = <<"c", "l", "j", "s">> THEN OneCallOf("evaluateCljs")
    ELSE IF LangText = <<"j", "s">> THEN OneCallOf("evaluate")
    ELSE NoCallAndRejected /\ returned.message = <<"Unknown lang: ">> \o LangText \o <<". Supported: js, cljs">>

\* cljs-eval was called with a lang of its own and the ClojureScript
\* evaluator failed
C34_Witness ==
  /\ invoked # NotCalled
  /\ invoked.name = <<"c", "l", "j", "s", "-", "e", "v", "a", "l">>
  /\ Get(invoked.params, "lang") = JStr(<<"p", "y", "t", "h", "o", "n">>)
  /\ Len(evaluatorCalls) = 1
  /\ evaluatorCalls[1].evaluator = "evaluateCljs"
  /\ returned = Reject(<<"C", "o", "m", "p", "i", "l", "e", " ", "e", "r", "r", "o", "r">>)


(***************************************************************************)
(* Properties of launchChrome, checked under LaunchSpec                    *)
(***************************************************************************)
\* C31: a call of launchChrome made while Chrome is listening on the
\* configured port returns success and spawns no process, wherever the Chrome
\* executable is or is not found and whether or not the profile is locked.
C31_LaunchIsIdempotent ==
  \A i \in 1..Len(launches) :
    launches[i].listening => launches[i].result.success /\ ~launches[i].spawned


(***************************************************************************)
(* Properties of injectRuntime, checked under RuntimeSpec                  *)
(***************************************************************************)
\* call i evaluated the script in the browser and the evaluation succeeded
Succeeded(i) ==
  injections[i].op = "injectRuntime" /\ injections[i].evaluatedIn # 0 /\ ~injections[i].threw

\* the page of the last successful injection before call i that no
\* invalidateRuntime came after, 0 when there is none
LastGood(i) ==
  LET good == {k \in 1..(i - 1) :
                 /\ Succeeded(k)
                 /\ \A j \in (k + 1)..(i - 1) : injections[j].op # "invalidateRuntime"}
  IN IF good = {} THEN 0
     ELSE injections[CHOOSE k \in good : \A j \in good : j <= k].page

\* C38: a call of injectRuntime on a connection with a current page evaluates
\* the script in the browser exactly when that page is not the page of the
\* last successful injection; after invalidateRuntime the next call
\* evaluates it even on the same page, and after an injection whose
\* evaluation failed the next call on that page evaluates it again.
C38_InjectsIffPageDiffers ==
  /\ lastInjectedPage = LastGood(Len(injections) + 1)
  /\ \A i \in 1..Len(injections) :
       (injections[i].op = "injectRuntime" /\ injections[i].page # 0) =>
         /\ (injections[i].evaluatedIn # 0) <=> (injections[i].page # LastGood(i))
         /\ (i > 1 /\ injections[i - 1].op = "invalidateRuntime") => injections[i].evaluatedIn # 0
         /\ (i > 1 /\ injections[i - 1].op = "injectRuntime" /\ injections[i - 1].threw
                   /\ injections[i - 1].page = injections[i].page)
              => injections[i].evaluatedIn # 0

\* an injection into a page, a call on the same page that is skipped,
\* invalidateRuntime, and the injection into the same page made again
C38_Witness ==
  /\ Len(injections) = 4
  /\ Succeeded(1)
  /\ injections[2] = Injected(injections[1].page, 0, FALSE)
  /\ injections[3].op = "invalidateRuntime"
  /\ Succeeded(4)
  /\ injections[4].page = injections[1].page

====
